---------------------------- MODULE Spec2Model ----------------------------
(***************************************************************************)
(* MCQ Pro (src/app.js): the hierarchy engine (HierarchyManager), the      *)
(* persistence collaborator it reads and writes (DatabaseManager) and the  *)
(* application flows that drive both (MCQProApp, the UIManager handlers).  *)
(*                                                                         *)
(* JavaScript runs one handler at a time; a handler runs until it returns  *)
(* or reaches an await.  Every action below is one such run: from an event *)
(* or the completion of an IndexedDB request up to the next await.  Every  *)
(* state of the model is therefore a point where control is back at the    *)
(* event loop, where any other handler may run.                            *)
(*                                                                         *)
(* Question objects are shared between flatQuestions and the chapters of   *)
(* the hierarchy (buildHierarchy pushes the same object), so they live in  *)
(* a heap and both structures hold references (heap indices).              *)
(***************************************************************************)
EXTENDS Integers, Sequences, FiniteSets, TLC

\* ------------------------------------------------------------ bounds
\* User events (clicks) in one run of the model.
MaxOps == 3

\* Questions of the largest file, and of the longest quiz session.
MaxTotal == 40

\* ------------------------------------------------------- input data
\* A taxonomy field a question object does not carry ("" is falsy, as is
\* undefined, in `q.term || 'Uncategorized'`).
Missing == ""

Question(id, term, subject, lesson, chapter, correct_option_id) ==
    [id |-> id, term |-> term, subject |-> subject, lesson |-> lesson,
     chapter |-> chapter, correct_option_id |-> correct_option_id]

\* The files of questions/manifest.json and what fetching each one yields:
\* a bare array, a wrapper object with a `questions` array, or anything else.
\* Ids are unique over the whole set (spec section 3: unique within a loaded
\* file set).  The subject "7" of question 3 and the term "7" of question 5
\* are integer-like property names.
Manifest == <<"a.json", "bad.json", "b.json", "n.json">>

ResponseData(filename) ==
    CASE filename = "a.json" ->
           [shape |-> "array",
            questions |-> << Question(1, "T1", "S1", "L1", "C1", 0),
                             Question(2, "T1", "S1", "L1", "C1", 1),
                             Question(3, "T1", "7", Missing, Missing, 0) >>]
      [] filename = "b.json" ->
           [shape |-> "wrapper",
            questions |-> << Question(4, Missing, "S1", "L1", "C1", 1) >>]
      [] filename = "n.json" ->
           [shape |-> "array",
            questions |-> << Question(5, "7", "S1", "L1", "C1", 0) >>]
      [] filename = "big.json" ->
           [shape |-> "array",
            questions |-> [i \in 1..MaxTotal |->
                              Question(i, "T1", "S1", "L1", "C1", 0)]]
      [] OTHER ->
           [shape |-> "other", questions |-> << >>]

\* The option indices a card offers (options has at least two entries).
OptionIndices == {0, 1}

\* ------------------------------------------- JavaScript plain objects
\* An object used as a map: its own keys in Object.values order, and the
\* value of each.  Integer-like keys come first in ascending order, the
\* other keys follow in insertion order.
EmptyObject == [keys |-> << >>, val |-> [k \in {} |-> 0]]

IndexValue == ("0" :> 0) @@ ("7" :> 7)

IsArrayIndex(k) == k \in DOMAIN IndexValue

Has(obj, k) == k \in DOMAIN obj.val

InsertKey(keys, k) ==
    IF IsArrayIndex(k)
    THEN LET n == Cardinality({i \in DOMAIN keys :
                       IsArrayIndex(keys[i]) /\ IndexValue[keys[i]] < IndexValue[k]})
         IN SubSeq(keys, 1, n) \o <<k>> \o SubSeq(keys, n + 1, Len(keys))
    ELSE Append(keys, k)

SetProp(obj, k, v) ==
    IF Has(obj, k)
    THEN [obj EXCEPT !.val[k] = v]
    ELSE [keys |-> InsertKey(obj.keys, k), val |-> (k :> v) @@ obj.val]

\* Names every object inherits from Object.prototype, and every array from
\* Array.prototype: `current[key]` finds them although they are no own key.
ObjectPrototypeKeys == {"constructor", "toString", "__proto__"}

\* ------------------------------------------------- HierarchyManager
ZeroStats == [total |-> 0, solved |-> 0, correct |-> 0]

NewBranch(type, name) ==
    [type |-> type, name |-> name, children |-> EmptyObject, stats |-> ZeroStats]

NewChapter(name) ==
    [type |-> "chapter", name |-> name, questions |-> << >>, stats |-> ZeroStats]

\* `node.questions` is truthy exactly for a chapter.
HasQuestions(node) == "questions" \in DOMAIN node

Default(v, d) == IF v = Missing THEN d ELSE v

ChapterPath(q) ==
    << Default(q.term, "Uncategorized"), Default(q.subject, "General"),
       Default(q.lesson, "General"), Default(q.chapter, "General") >>

\* One iteration of the forEach of buildHierarchy: the nodes on the path of
\* q are created on first encounter and the reference is pushed.
InsertQuestion(h, ref, q) ==
    LET term    == ChapterPath(q)[1]
        subject == ChapterPath(q)[2]
        lesson  == ChapterPath(q)[3]
        chapter == ChapterPath(q)[4]
        h1 == IF Has(h, term) THEN h
              ELSE SetProp(h, term, NewBranch("term", term))
        s0 == h1.val[term].children
        s1 == IF Has(s0, subject) THEN s0
              ELSE SetProp(s0, subject, NewBranch("subject", subject))
        l0 == s1.val[subject].children
        l1 == IF Has(l0, lesson) THEN l0
              ELSE SetProp(l0, lesson, NewBranch("lesson", lesson))
        c0 == l1.val[lesson].children
        c1 == IF Has(c0, chapter) THEN c0
              ELSE SetProp(c0, chapter, NewChapter(chapter))
        c2 == [c1 EXCEPT !.val[chapter].questions = Append(@, ref)]
        l2 == [l1 EXCEPT !.val[lesson].children = c2]
        s2 == [s1 EXCEPT !.val[subject].children = l2]
    IN [h1 EXCEPT !.val[term].children = s2]

RECURSIVE InsertAll(_, _, _, _)
InsertAll(h, flat, objs, i) ==
    \* (the second test is never true: it has the tree of every step
    \* evaluated at that step)
    IF i > Len(flat) \/ Len(h.keys) < 0 THEN h
    ELSE InsertAll(InsertQuestion(h, flat[i], objs[flat[i]]), flat, objs, i + 1)

RECURSIVE SumStats(_, _)
SumStats(obj, i) ==
    IF i > Len(obj.keys) THEN ZeroStats
    ELSE LET a == obj.val[obj.keys[i]].stats
             b == SumStats(obj, i + 1)
         IN [total |-> a.total + b.total, solved |-> a.solved + b.solved,
             correct |-> a.correct + b.correct]

\* calcNodeStats without line 281 (the reset of a branch's stats before the
\* sum): the children's sums are added to the stats the branch already has.
RECURSIVE calcNodeStatsNoReset(_, _)
calcNodeStatsNoReset(node, objs) ==
    IF HasQuestions(node)
    THEN [node EXCEPT !.stats =
            [total   |-> Len(node.questions),
             solved  |-> Cardinality({i \in DOMAIN node.questions :
                                         objs[node.questions[i]].solved}),
             correct |-> Cardinality({i \in DOMAIN node.questions :
                                         objs[node.questions[i]].correct})]]
    ELSE LET kids == [k \in DOMAIN node.children.val |->
                         calcNodeStatsNoReset(node.children.val[k], objs)]
             done == [node.children EXCEPT !.val = kids]
             sum  == SumStats(done, 1)
         IN [node EXCEPT !.children = done,
                         !.stats = [total   |-> node.stats.total + sum.total,
                                    solved  |-> node.stats.solved + sum.solved,
                                    correct |-> node.stats.correct + sum.correct]]

RECURSIVE calcNodeStats(_, _)
calcNodeStats(node, objs) ==
    IF HasQuestions(node)
    THEN [node EXCEPT !.stats =
            [total   |-> Len(node.questions),
             solved  |-> Cardinality({i \in DOMAIN node.questions :
                                         objs[node.questions[i]].solved}),
             correct |-> Cardinality({i \in DOMAIN node.questions :
                                         objs[node.questions[i]].correct})]]
    ELSE LET kids == [k \in DOMAIN node.children.val |->
                         calcNodeStats(node.children.val[k], objs)]
             done == [node.children EXCEPT !.val = kids]
         IN [node EXCEPT !.children = done, !.stats = SumStats(done, 1)]

calculateStats(h, objs) ==
    [h EXCEPT !.val = [k \in DOMAIN h.val |-> calcNodeStats(h.val[k], objs)]]

buildHierarchy(flat, objs) ==
    calculateStats(InsertAll(EmptyObject, flat, objs, 1), objs)


\* Array.prototype.find(q => q.id === questionId) over an array of question
\* references: the first match, or 0 for undefined.
FirstWithId(refs, objs, questionId) ==
    LET hits == {i \in DOMAIN refs : objs[refs[i]].id = questionId}
    IN IF hits = {} THEN 0
       ELSE refs[CHOOSE i \in hits : \A j \in hits : i <= j]

\* updateInNode of updateQuestionStatus and of toggleFavoriteStatus: the
\* question the depth-first search reaches first (the one it mutates before
\* returning true), or 0 when it returns false.
RECURSIVE updateInNode(_, _, _)
RECURSIVE updateInChildren(_, _, _, _)
updateInNode(node, objs, questionId) ==
    IF HasQuestions(node)
    THEN FirstWithId(node.questions, objs, questionId)
    ELSE updateInChildren(node.children, objs, questionId, 1)

updateInChildren(obj, objs, questionId, i) ==
    IF i > Len(obj.keys) THEN 0
    ELSE LET r == updateInNode(obj.val[obj.keys[i]], objs, questionId)
         IN IF r # 0 THEN r ELSE updateInChildren(obj, objs, questionId, i + 1)

\* The objects updateQuestionStatus writes: the first match of the flat
\* array, and the first match below each term.
StatusTargets(flat, objs, h, questionId) ==
    ({FirstWithId(flat, objs, questionId)}
       \cup {updateInNode(h.val[k], objs, questionId) : k \in DOMAIN h.val}) \ {0}

\* updateQuestionStatus without its last line, the call of calculateStats.
updateQuestionStatusNoStats(flat, objs, h, questionId, correct) ==
    LET targets == StatusTargets(flat, objs, h, questionId)
        objs2 == [r \in DOMAIN objs |->
                    IF r \in targets
                    THEN [objs[r] EXCEPT !.solved = TRUE, !.correct = correct]
                    ELSE objs[r]]
    IN [objs |-> objs2, hierarchy |-> h]

\* updateQuestionStatus that, finding no question with the id, marks the
\* first question of the flat array.
updateQuestionStatusOrFirst(flat, objs, h, questionId, correct) ==
    LET found == StatusTargets(flat, objs, h, questionId)
        targets == IF found = {} /\ Len(flat) > 0 THEN {flat[1]} ELSE found
        objs2 == [r \in DOMAIN objs |->
                    IF r \in targets
                    THEN [objs[r] EXCEPT !.solved = TRUE, !.correct = correct]
                    ELSE objs[r]]
    IN [objs |-> objs2, hierarchy |-> calculateStats(h, objs2)]

\* updateQuestionStatus without lines 329 and 338, the `solved = true` that
\* goes with every `correct = correct`.
updateQuestionStatusCorrectOnly(flat, objs, h, questionId, correct) ==
    LET targets == StatusTargets(flat, objs, h, questionId)
        objs2 == [r \in DOMAIN objs |->
                    IF r \in targets
                    THEN [objs[r] EXCEPT !.correct = correct]
                    ELSE objs[r]]
    IN [objs |-> objs2, hierarchy |-> calculateStats(h, objs2)]

updateQuestionStatus(flat, objs, h, questionId, correct) ==
    LET targets == StatusTargets(flat, objs, h, questionId)
        objs2 == [r \in DOMAIN objs |->
                    IF r \in targets
                    THEN [objs[r] EXCEPT !.solved = TRUE, !.correct = correct]
                    ELSE objs[r]]
    IN [objs |-> objs2, hierarchy |-> calculateStats(h, objs2)]

\* toggleFavoriteStatus that sets the flag of the first match of the flat
\* array instead of flipping it, and leaves the tree alone.
toggleFavoriteSets(flat, objs, h, cache, questionId) ==
    LET flatQ == FirstWithId(flat, objs, questionId)
        objs2 == [r \in DOMAIN objs |->
                    IF r = flatQ THEN [objs[r] EXCEPT !.favorite = TRUE]
                    ELSE objs[r]]
    IN [objs |-> objs2,
        favoritesCache |-> IF flatQ # 0 THEN cache \cup {questionId} ELSE cache,
        ret |-> flatQ # 0]

\* toggleFavoriteStatus: one `favorite = !favorite` on the first match of the
\* flat array, then one on the first match below each term, in this order;
\* an object reached more than once is flipped each time.
toggleFavoriteStatus(flat, objs, h, cache, questionId) ==
    LET flatQ == FirstWithId(flat, objs, questionId)
        newStatus == IF flatQ = 0 THEN FALSE ELSE ~objs[flatQ].favorite
        flips == <<flatQ>> \o [i \in 1..Len(h.keys) |->
                                  updateInNode(h.val[h.keys[i]], objs, questionId)]
        times(r) == Cardinality({i \in DOMAIN flips : flips[i] = r})
        objs2 == [r \in DOMAIN objs |->
                    IF times(r) % 2 = 1
                    THEN [objs[r] EXCEPT !.favorite = ~objs[r].favorite]
                    ELSE objs[r]]
    IN [objs |-> objs2,
        favoritesCache |-> IF newStatus THEN cache \cup {questionId}
                           ELSE cache \ {questionId},
        ret |-> newStatus]

\* ----------------------------------------- getQuestionsForSelection
\* What `current` can hold during the walk.
Undefined == [kind |-> "undefined"]

ObjectValue(obj) == [kind |-> "object", obj |-> obj]

ArrayValue(arr) == [kind |-> "array", arr |-> arr]

\* What a call does: it returns an array, or it throws a TypeError.
Returns(arr) == [threw |-> FALSE, value |-> arr]

Throws == [threw |-> TRUE, value |-> << >>]

\* collectQuestions that descends into the first child only.
RECURSIVE collectFirstChild(_, _)
collectFirstChild(obj, i) ==
    IF i > Len(obj.keys) THEN << >>
    ELSE IF HasQuestions(obj.val[obj.keys[i]])
         THEN obj.val[obj.keys[i]].questions
         ELSE collectFirstChild(obj.val[obj.keys[i]].children, 1)

RECURSIVE collectQuestions(_)
RECURSIVE collectChildren(_, _)
collectQuestions(node) ==
    IF HasQuestions(node) THEN node.questions
    ELSE collectChildren(node.children, 1)

collectChildren(obj, i) ==
    IF i > Len(obj.keys) THEN << >>
    ELSE collectQuestions(obj.val[obj.keys[i]]) \o collectChildren(obj, i + 1)

\* `current[key]` is truthy on an array for an element, for a non-zero
\* length and for the inherited names; none of these values has `children`
\* or `questions`.
ArrayHasTruthy(arr, key) ==
    \/ IsArrayIndex(key) /\ IndexValue[key] < Len(arr)
    \/ key = "length" /\ Len(arr) > 0
    \/ key \in ObjectPrototypeKeys

RECURSIVE WalkPath(_, _, _)
WalkPath(current, path, i) ==
    IF i > Len(path)
    THEN CASE current.kind = "array"  -> Returns(current.arr)
           [] current.kind = "object" ->
                Returns(collectQuestions([children |-> current.obj]))
           [] OTHER -> Throws
    ELSE CASE current.kind = "object" ->
                IF Has(current.obj, path[i])
                THEN LET node == current.obj.val[path[i]]
                     IN WalkPath(IF HasQuestions(node)
                                 THEN ArrayValue(node.questions)
                                 ELSE ObjectValue(node.children), path, i + 1)
                ELSE IF path[i] \in ObjectPrototypeKeys
                THEN WalkPath(Undefined, path, i + 1)
                ELSE Returns(<< >>)
           [] current.kind = "array" ->
                IF ArrayHasTruthy(current.arr, path[i])
                THEN WalkPath(Undefined, path, i + 1)
                ELSE Returns(current.arr)
           [] OTHER -> Throws

getQuestionsForSelection(flat, h, path) ==
    IF Len(path) = 0 THEN Returns(flat)
    ELSE WalkPath(ObjectValue(h), path, 1)

\* ------------------------------------------------- loadMultipleFiles
NoProgress == [id \in {} |-> 0]

\* Decorate with `correct` taken from the presence of a progress record
\* (the record's own `correct` field ignored).
DecorateSolvedIsCorrect(q, filename, cache, favorites) ==
    [id |-> q.id, term |-> q.term, subject |-> q.subject, lesson |-> q.lesson,
     chapter |-> q.chapter, correct_option_id |-> q.correct_option_id,
     fileId |-> filename,
     solved |-> q.id \in DOMAIN cache,
     correct |-> q.id \in DOMAIN cache,
     favorite |-> q.id \in favorites]

\* The object pushed for q (lines 224-230).
Decorate(q, filename, cache, favorites) ==
    [id |-> q.id, term |-> q.term, subject |-> q.subject, lesson |-> q.lesson,
     chapter |-> q.chapter, correct_option_id |-> q.correct_option_id,
     fileId |-> filename,
     solved |-> q.id \in DOMAIN cache,
     correct |-> IF q.id \in DOMAIN cache THEN cache[q.id].correct ELSE FALSE,
     favorite |-> q.id \in favorites]

\* The for loop over filesData: the file names and the objects it pushes.
RECURSIVE ProcessFiles(_, _, _, _)
ProcessFiles(filesData, i, cache, favorites) ==
    IF i > Len(filesData) THEN [files |-> << >>, objs |-> << >>]
    ELSE LET f == filesData[i]
             rest == ProcessFiles(filesData, i + 1, cache, favorites)
         IN IF f.data.shape \in {"array", "wrapper"}
            THEN [files |-> <<f.filename>> \o rest.files,
                  objs |-> [j \in 1..Len(f.data.questions) |->
                              Decorate(f.data.questions[j], f.filename, cache, favorites)]
                           \o rest.objs]
            ELSE rest

\* ------------------------------------------------------- MCQProApp
\* The filesData of a loadFiles that breaks out of its loop at a file
\* whose payload has neither shape.
RECURSIVE FilesDataUntilInvalid(_, _)
FilesDataUntilInvalid(filenames, i) ==
    IF i > Len(filenames) THEN << >>
    ELSE LET r == ResponseData(filenames[i])
         IN IF r.shape \in {"array", "wrapper"}
            THEN << [filename |-> filenames[i],
                     data |-> [shape |-> "array", questions |-> r.questions]] >>
                 \o FilesDataUntilInvalid(filenames, i + 1)
            ELSE << >>

\* The filesData of loadFiles: a file whose payload has neither shape is
\* skipped, the others contribute their array of questions.
RECURSIVE FilesData(_, _)
FilesData(filenames, i) ==
    IF i > Len(filenames) THEN << >>
    ELSE LET r == ResponseData(filenames[i])
         IN (IF r.shape \in {"array", "wrapper"}
             THEN << [filename |-> filenames[i],
                      data |-> [shape |-> "array", questions |-> r.questions]] >>
             ELSE << >>) \o FilesData(filenames, i + 1)

\* ------------------------------------------- Number (IEEE 754 binary64)
\* The Numbers showResults computes with lie in (0, 100].  One is kept as
\* its significand, most significant bit first, with the count of the bits
\* that stand after the binary point: value = bits * 2^(-frac).
SignificandBits == 53

\* The first k binary digits of r/n after the point, for 0 <= r < n.
RECURSIVE BitsOf(_, _, _)
BitsOf(r, n, k) ==
    IF k = 0 THEN << >>
    ELSE <<(2 * r) \div n>> \o BitsOf((2 * r) % n, n, k - 1)

\* What is left of r/n after its first k binary digits, as a remainder.
RECURSIVE RemAfter(_, _, _)
RemAfter(r, n, k) ==
    IF k = 0 \/ r = 0 THEN r ELSE RemAfter((2 * r) % n, n, k - 1)

\* The zero digits of r/n before its first one, for 0 < r < n.
RECURSIVE LeadingZeros(_, _)
LeadingZeros(r, n) ==
    IF 2 * r >= n THEN 0 ELSE 1 + LeadingZeros(2 * r, n)

RECURSIVE Pow2(_)
Pow2(k) == IF k = 0 THEN 1 ELSE 2 * Pow2(k - 1)

\* bits + 1, most significant bit first.
RECURSIVE Increment(_)
Increment(bits) ==
    IF bits = << >> THEN <<1>>
    ELSE IF bits[Len(bits)] = 0
         THEN SubSeq(bits, 1, Len(bits) - 1) \o <<1>>
         ELSE Increment(SubSeq(bits, 1, Len(bits) - 1)) \o <<0>>

\* Round to nearest, ties to even: `up` says that what was dropped is more
\* than half a unit in the last place, `tie` that it is exactly half.
RoundToEven(bits, up, tie) ==
    IF up \/ (tie /\ bits[Len(bits)] = 1) THEN Increment(bits) ELSE bits

\* c / n for 0 < c < n: the quotient rounded to 53 significant bits.
Divide(c, n) ==
    LET z == LeadingZeros(c, n)
        r0 == c * Pow2(z)
        kept == BitsOf(r0, n, SignificandBits)
        rest == RemAfter(r0, n, SignificandBits)
    IN [bits |-> RoundToEven(kept, 2 * rest > n, 2 * rest = n),
        frac |-> z + SignificandBits]

\* bits * m for a small m, from the least significant bit with a carry.
RECURSIVE TimesSmall(_, _, _)
TimesSmall(bits, m, carry) ==
    IF carry = 0 /\ bits = << >> THEN << >>
    ELSE IF bits = << >>
    THEN TimesSmall(<< >>, m, carry \div 2) \o <<carry % 2>>
    ELSE LET v == bits[Len(bits)] * m + carry
         IN TimesSmall(SubSeq(bits, 1, Len(bits) - 1), m, v \div 2) \o <<v % 2>>

RECURSIVE StripZeros(_)
StripZeros(bits) ==
    IF bits # << >> /\ bits[1] = 0 THEN StripZeros(Tail(bits)) ELSE bits

\* x * m: the exact product rounded to 53 significant bits.
Multiply(x, m) ==
    LET exact == StripZeros(TimesSmall(x.bits, m, 0))
        extra == Len(exact) - SignificandBits
    IN IF extra <= 0 THEN [bits |-> exact, frac |-> x.frac]
       ELSE LET kept == SubSeq(exact, 1, SignificandBits)
                dropped == SubSeq(exact, SignificandBits + 1, Len(exact))
                more == \E i \in 2..Len(dropped) : dropped[i] = 1
            IN [bits |-> RoundToEven(kept, dropped[1] = 1 /\ more,
                                     dropped[1] = 1 /\ ~more),
                frac |-> x.frac - extra]

\* The value of a short bit string.
RECURSIVE BitsValue(_)
BitsValue(bits) ==
    IF bits = << >> THEN 0
    ELSE 2 * BitsValue(SubSeq(bits, 1, Len(bits) - 1)) + bits[Len(bits)]

\* Math.round(x) = floor(x + 1/2): the integer part, and one more when the
\* first bit after the point is set.
MathRound(x) ==
    LET whole == Len(x.bits) - x.frac
    IN IF whole < 0 THEN 0
       ELSE BitsValue(SubSeq(x.bits, 1, whole))
            + (IF x.frac > 0 THEN x.bits[whole + 1] ELSE 0)

\* Math.round((correct / total) * 100) for 0 <= correct <= total, total > 0.
Percent(correct, total) ==
    IF correct = 0 THEN 0
    ELSE IF correct = total THEN 100
    ELSE MathRound(Multiply(Divide(correct, total), 100))

\* ============================================================ state
VARIABLES
    heap,            \* the question objects alive, by reference
    flatQuestions,   \* HierarchyManager.flatQuestions: references
    hierarchy,       \* HierarchyManager.hierarchy
    currentFiles,    \* HierarchyManager.currentFiles
    progressCache,   \* HierarchyManager.progressCache: id -> record
    favoritesCache,  \* HierarchyManager.favoritesCache: set of ids
    appCurrentFiles, \* MCQProApp.currentFiles
    progressStore,   \* IndexedDB object store 'progress': id -> record
    favoritesStore,  \* IndexedDB object store 'favorites': id -> record
    progressQueue,   \* requests on 'progress' not yet completed, oldest first
    favoritesQueue,  \* requests on 'favorites' not yet completed, oldest first
    lastCall,        \* the engine call that ran last, and what it returned
    nOps,            \* user events so far
    quizActive,      \* QuizManager.active
    quizQuestions,   \* QuizManager.questions: the session's question objects
    currentIndex,    \* QuizManager.currentIndex (from 0)
    answers,         \* QuizManager.answers: id -> option index
    timer,           \* QuizManager.timer: TRUE while its interval is set
    timeRemaining,   \* QuizManager.timeRemaining
    setup,           \* the quiz-setup modal and the closure of quiz-start
    quizModalOpen,   \* the quiz modal is shown
    quizBody,        \* what quiz-body holds: a question or the results
    quizFooter,      \* what quiz-footer holds: "nav" or "results" buttons
    resultsPending,  \* loadFiles calls of submit waiting on saveSetting
    ticks,           \* periodic ticks since the last start
    submits          \* calls of submit since the last start

engineVars == <<heap, flatQuestions, hierarchy, currentFiles, progressCache,
                favoritesCache>>

storeVars == <<progressStore, favoritesStore>>

sessionVars == <<quizActive, quizQuestions, currentIndex, answers, timer,
                 timeRemaining, quizModalOpen, quizBody, quizFooter, ticks,
                 submits>>

quizVars == <<sessionVars, setup, resultsPending>>

vars == <<heap, flatQuestions, hierarchy, currentFiles, progressCache,
          favoritesCache, appCurrentFiles, progressStore, favoritesStore,
          progressQueue, favoritesQueue, lastCall, nOps, quizActive,
          quizQuestions, currentIndex, answers, timer, timeRemaining, setup,
          quizModalOpen, quizBody, quizFooter, resultsPending, ticks, submits>>

Call(op, id, ret) == [op |-> op, id |-> id, ret |-> ret]

\* Nothing waits for the promise of a loadFiles call.
NoThen == [kind |-> "none"]

\* The quiz-setup modal is hidden.
NoSetup == [open |-> FALSE, alias |-> FALSE, questions |-> << >>]

\* quiz-body before the first render.
NoBody == [kind |-> "none"]

\* An empty answer map.
NoAnswers == [id \in {} |-> 0]

\* The constructor of QuizManager; both modals start hidden, and the footer
\* of the page holds quiz-prev, quiz-progress, quiz-next and quiz-submit
\* (what close() resets it to).
QuizConstructed ==
    /\ quizActive = FALSE
    /\ quizQuestions = << >>
    /\ currentIndex = 0
    /\ answers = NoAnswers
    /\ timer = FALSE
    /\ timeRemaining = 0
    /\ setup = NoSetup
    /\ quizModalOpen = FALSE
    /\ quizBody = NoBody
    /\ quizFooter = "nav"
    /\ resultsPending = << >>
    /\ ticks = 0
    /\ submits = 0

\* The constructors of HierarchyManager and MCQProApp, and empty stores.
Init ==
    /\ heap = << >>
    /\ flatQuestions = << >>
    /\ hierarchy = EmptyObject
    /\ currentFiles = << >>
    /\ progressCache = NoProgress
    /\ favoritesCache = {}
    /\ appCurrentFiles = << >>
    /\ progressStore = NoProgress
    /\ favoritesStore = NoProgress
    /\ progressQueue = << >>
    /\ favoritesQueue = << >>
    /\ lastCall = Call("none", 0, FALSE)
    /\ nOps = 0
    /\ QuizConstructed

\* What the file selector can hold: the selected options, in manifest order.
Selections ==
    { <<Manifest[1]>>, <<Manifest[1], Manifest[3]>>,
      <<Manifest[2], Manifest[3]>>, <<Manifest[2]>> }

\* The ids of the question cards on screen: the cards were rendered from the
\* objects that are alive.
LoadedIds == {heap[r].id : r \in DOMAIN heap}

\* The fields of the engine at a call of loadFiles.  The program keeps no
\* such record: it travels with the request for the properties that compare
\* the state after a load with the state before it.
EngineFields ==
    [flatQuestions |-> flatQuestions, heap |-> heap, hierarchy |-> hierarchy,
     progressCache |-> progressCache, favoritesCache |-> favoritesCache]

\* loadFiles(filenames), from its call to the first await of
\* loadMultipleFiles.  The awaits on the file cache and on fetch come before
\* any read or write of the engine, so they are taken with the call.  With
\* no valid file it throws, and its catch shows a toast.  `queue` is the
\* progress queue the call finds, `then` what waits for the promise it
\* returns.  `this.flatQuestions = []` is a new array: a quiz-start closure
\* that holds the flat array keeps the old one, with what it held.
loadFiles(filenames, queue, then) ==
    LET filesData == FilesData(filenames, 1)
    IN IF filesData = << >>
       THEN /\ progressQueue' = queue
            /\ lastCall' = Call("loadFiles.error", 0, FALSE)
            /\ UNCHANGED <<flatQuestions, currentFiles, progressCache, setup>>
       ELSE /\ flatQuestions' = << >>
            /\ currentFiles' = << >>
            /\ progressCache' = NoProgress
            /\ setup' = IF setup.alias
                         THEN [setup EXCEPT !.alias = FALSE,
                                 !.questions = [i \in DOMAIN flatQuestions |->
                                                  heap[flatQuestions[i]]]]
                         ELSE setup
            /\ progressQueue' = Append(queue,
                   [kind |-> "getAllProgress", filenames |-> filenames,
                    filesData |-> filesData, then |-> then,
                    prior |-> EngineFields])
            /\ lastCall' = Call("loadMultipleFiles.begin", 0, FALSE)

\* The promise of loadCurrentFiles settles without an ingest: nothing was
\* loaded, or no file is valid.
SettlesAtOnce == Len(appCurrentFiles) = 0 \/ FilesData(appCurrentFiles, 1) = << >>

loadCurrentFiles(queue, then) ==
    IF Len(appCurrentFiles) > 0
    THEN loadFiles(appCurrentFiles, queue, then)
    ELSE /\ progressQueue' = queue
         /\ UNCHANGED <<flatQuestions, currentFiles, progressCache, lastCall, setup>>

\* ---------------------------------------------------------- events
\* Click on load-selected.
LoadSelected(filenames) ==
    /\ nOps < MaxOps
    /\ nOps' = nOps + 1
    /\ loadFiles(filenames, progressQueue, NoThen)
    /\ UNCHANGED <<heap, hierarchy, favoritesCache, appCurrentFiles,
                   progressStore, favoritesStore, favoritesQueue,
                   sessionVars, resultsPending>>

\* Click on an option of the card of an unsolved question: answerQuestion up
\* to its await of saveProgress.
AnswerClick(questionId, selectedOption) ==
    /\ nOps < MaxOps
    /\ \E r \in DOMAIN heap :
         /\ heap[r].id = questionId
         /\ ~heap[r].solved
         /\ LET isCorrect == selectedOption = heap[r].correct_option_id
                fileId == IF Len(appCurrentFiles) > 0 THEN appCurrentFiles[1]
                          ELSE "undefined"
            IN progressQueue' = Append(progressQueue,
                 [kind |-> "put",
                  record |-> [questionId |-> questionId, fileId |-> fileId,
                              correct |-> isCorrect,
                              selectedOption |-> selectedOption],
                  isCorrect |-> isCorrect])
    /\ nOps' = nOps + 1
    /\ UNCHANGED <<engineVars, appCurrentFiles, storeVars, favoritesQueue, lastCall,
                   quizVars>>

\* Click on the favorite button of a card: MCQProApp.toggleFavorite up to the
\* await inside DatabaseManager.toggleFavorite.  It returns at once when the
\* flat array does not hold the id.
FavoriteClick(questionId) ==
    /\ nOps < MaxOps
    /\ questionId \in LoadedIds
    /\ nOps' = nOps + 1
    /\ LET question == FirstWithId(flatQuestions, heap, questionId)
       IN IF question = 0
          THEN UNCHANGED favoritesQueue
          ELSE favoritesQueue' = Append(favoritesQueue,
                 [kind |-> "isFavorite", questionId |-> questionId,
                  fileId |-> heap[question].fileId])
    /\ UNCHANGED <<engineVars, appCurrentFiles, storeVars, progressQueue, lastCall,
                   quizVars>>

\* Click on the reset button of the card of a solved question:
\* resetQuestion.  `await store.delete(...)` awaits an IDBRequest, which is
\* no promise, so the handler goes on without waiting for the delete.
ResetClick(questionId) ==
    /\ nOps < MaxOps
    /\ \E r \in DOMAIN heap : heap[r].id = questionId /\ heap[r].solved
    /\ nOps' = nOps + 1
    /\ progressQueue' = Append(progressQueue,
                               [kind |-> "delete", questionId |-> questionId])
    /\ LET u == updateQuestionStatus(flatQuestions, heap, hierarchy, questionId, FALSE)
       IN /\ heap' = u.objs
          /\ hierarchy' = u.hierarchy
    /\ lastCall' = Call("updateQuestionStatus", questionId, FALSE)
    /\ UNCHANGED <<flatQuestions, currentFiles, progressCache, favoritesCache,
                   appCurrentFiles, storeVars, favoritesQueue, quizVars>>

\* Click on reset-progress (confirmed): clearStore('progress').
ResetProgressClick ==
    /\ nOps < MaxOps
    /\ nOps' = nOps + 1
    /\ progressQueue' = Append(progressQueue, [kind |-> "clear"])
    /\ UNCHANGED <<engineVars, appCurrentFiles, storeVars, favoritesQueue, lastCall,
                   quizVars>>

\* Click on reset-favorites (confirmed): clearStore('favorites').
ResetFavoritesClick ==
    /\ nOps < MaxOps
    /\ nOps' = nOps + 1
    /\ favoritesQueue' = Append(favoritesQueue, [kind |-> "clear"])
    /\ UNCHANGED <<engineVars, appCurrentFiles, storeVars, progressQueue, lastCall,
                   quizVars>>

\* ------------------------------------- completions of IndexedDB requests
\* Requests on one object store complete in the order they were made (a
\* read made after a write sees it); requests on different stores complete
\* in any order.  The continuation of the awaiting function runs with the
\* completion, before any other handler.

\* getAllProgress of loadMultipleFiles completes; the function goes on to
\* its await of getAllFavorites.
GetAllProgressDone ==
    /\ Len(progressQueue) > 0
    /\ Head(progressQueue).kind = "getAllProgress"
    /\ progressQueue' = Tail(progressQueue)
    /\ favoritesQueue' = Append(favoritesQueue,
           [kind |-> "getAllFavorites",
            filenames |-> Head(progressQueue).filenames,
            filesData |-> Head(progressQueue).filesData,
            then |-> Head(progressQueue).then,
            prior |-> Head(progressQueue).prior,
            allProgress |-> progressStore])
    /\ UNCHANGED <<engineVars, appCurrentFiles, storeVars, lastCall, nOps,
                   quizVars>>

\* saveProgress of answerQuestion completes; answerQuestion goes on with
\* updateQuestionStatus and a render.
SaveProgressDone ==
    /\ Len(progressQueue) > 0
    /\ Head(progressQueue).kind = "put"
    /\ LET req == Head(progressQueue)
           u == updateQuestionStatus(flatQuestions, heap, hierarchy,
                                     req.record.questionId, req.isCorrect)
       IN /\ progressStore' = (req.record.questionId :> req.record) @@ progressStore
          /\ heap' = u.objs
          /\ hierarchy' = u.hierarchy
          /\ lastCall' = Call("updateQuestionStatus", req.record.questionId, FALSE)
    /\ progressQueue' = Tail(progressQueue)
    /\ UNCHANGED <<flatQuestions, currentFiles, progressCache, favoritesCache,
                   appCurrentFiles, favoritesStore, favoritesQueue, nOps,
                   quizVars>>

\* The delete of resetQuestion completes; nothing waits for it.
DeleteProgressDone ==
    /\ Len(progressQueue) > 0
    /\ Head(progressQueue).kind = "delete"
    /\ progressStore' = [id \in DOMAIN progressStore \ {Head(progressQueue).questionId}
                           |-> progressStore[id]]
    /\ progressQueue' = Tail(progressQueue)
    /\ UNCHANGED <<engineVars, appCurrentFiles, favoritesStore, favoritesQueue,
                   lastCall, nOps, quizVars>>

\* clearStore('progress') completes; its then-callback calls
\* loadCurrentFiles.
ClearProgressDone ==
    /\ Len(progressQueue) > 0
    /\ Head(progressQueue).kind = "clear"
    /\ progressStore' = NoProgress
    /\ loadCurrentFiles(Tail(progressQueue), NoThen)
    /\ UNCHANGED <<heap, hierarchy, favoritesCache, appCurrentFiles,
                   favoritesStore, favoritesQueue, nOps, sessionVars,
                   resultsPending>>

\* isFavorite inside DatabaseManager.toggleFavorite completes; the function
\* opens a new transaction and deletes or puts the record.
IsFavoriteDone ==
    /\ Len(favoritesQueue) > 0
    /\ Head(favoritesQueue).kind = "isFavorite"
    /\ LET req == Head(favoritesQueue)
       IN favoritesQueue' = Append(Tail(favoritesQueue),
              [kind |-> "write", questionId |-> req.questionId,
               fileId |-> req.fileId,
               isFav |-> req.questionId \in DOMAIN favoritesStore])
    /\ UNCHANGED <<engineVars, appCurrentFiles, storeVars, progressQueue,
                   lastCall, nOps, quizVars>>

\* The delete or put of DatabaseManager.toggleFavorite completes;
\* MCQProApp.toggleFavorite goes on with toggleFavoriteStatus.
FavoriteWriteDone ==
    /\ Len(favoritesQueue) > 0
    /\ Head(favoritesQueue).kind = "write"
    /\ LET req == Head(favoritesQueue)
           t == toggleFavoriteStatus(flatQuestions, heap, hierarchy,
                                     favoritesCache, req.questionId)
       IN /\ favoritesStore' =
                IF req.isFav
                THEN [id \in DOMAIN favoritesStore \ {req.questionId}
                         |-> favoritesStore[id]]
                ELSE (req.questionId :> [questionId |-> req.questionId,
                                         fileId |-> req.fileId]) @@ favoritesStore
          /\ heap' = t.objs
          /\ favoritesCache' = t.favoritesCache
          /\ lastCall' = Call("toggleFavoriteStatus", req.questionId, t.ret)
    /\ favoritesQueue' = Tail(favoritesQueue)
    /\ UNCHANGED <<flatQuestions, hierarchy, currentFiles, progressCache,
                   appCurrentFiles, progressStore, progressQueue, nOps,
                   quizVars>>

\* loadMultipleFiles from the completion of getAllFavorites to its return
\* (lines 205-235): what the fields of the engine become.  The objects the
\* flat array holds are kept and the new ones pushed behind them; the
\* references are renumbered in the order of the flat array.
loadMultipleFilesResume(req, allFavorites) ==
    LET cache == [id \in DOMAIN progressCache \cup DOMAIN req.allProgress |->
                    IF id \in DOMAIN req.allProgress THEN req.allProgress[id]
                    ELSE progressCache[id]]
        favorites == favoritesCache \cup allFavorites
        pushed == ProcessFiles(req.filesData, 1, cache, favorites)
        objs == [i \in 1..Len(flatQuestions) |-> heap[flatQuestions[i]]]
                  \o pushed.objs
        flat == [i \in 1..Len(objs) |-> i]
    IN [progressCache |-> cache, favoritesCache |-> favorites,
        currentFiles |-> currentFiles \o pushed.files,
        heap |-> objs, flatQuestions |-> flat,
        hierarchy |-> buildHierarchy(flat, objs)]

\* getAllFavorites of loadMultipleFiles completes: the function runs to its
\* end, and loadFiles goes on to its await of saveSetting.  What follows it
\* in loadFiles touches the view only; what waits for its promise runs when
\* saveSetting has completed.
GetAllFavoritesDone ==
    /\ Len(favoritesQueue) > 0
    /\ Head(favoritesQueue).kind = "getAllFavorites"
    /\ LET req == Head(favoritesQueue)
           m == loadMultipleFilesResume(req, DOMAIN favoritesStore)
       IN /\ progressCache' = m.progressCache
          /\ favoritesCache' = m.favoritesCache
          /\ currentFiles' = m.currentFiles
          /\ heap' = m.heap
          /\ flatQuestions' = m.flatQuestions
          /\ hierarchy' = m.hierarchy
          /\ appCurrentFiles' = req.filenames
    /\ favoritesQueue' = Tail(favoritesQueue)
    /\ lastCall' = Call("loadMultipleFiles", 0, FALSE)
    /\ resultsPending' = IF Head(favoritesQueue).then = NoThen
                         THEN resultsPending
                         ELSE Append(resultsPending, Head(favoritesQueue).then)
    /\ UNCHANGED <<storeVars, progressQueue, nOps, sessionVars, setup>>

\* clearStore('favorites') completes; its then-callback calls
\* loadCurrentFiles.
ClearFavoritesDone ==
    /\ Len(favoritesQueue) > 0
    /\ Head(favoritesQueue).kind = "clear"
    /\ favoritesStore' = NoProgress
    /\ favoritesQueue' = Tail(favoritesQueue)
    /\ loadCurrentFiles(progressQueue, NoThen)
    /\ UNCHANGED <<heap, hierarchy, favoritesCache, appCurrentFiles,
                   progressStore, nOps, sessionVars, resultsPending>>

\* =========================================================== QuizManager
\* User events (clicks) in one run of the quiz.
MaxQuizOps == 4

SecondsPerMinute == 60

\* `config.count || 20` and `config.time || 30`.
DefaultCount == 20

DefaultTime == 30

\* What the quiz-count and quiz-time inputs can hold.  The times are
\* positive, so the updateDisplay call inside startTimer never finds the
\* time expired.
CountInputs == {2, 5}

TimeInputs == {1}

\* The sources of startQuiz: 'all', and the labels of the groups shown for
\* the root path.
QuizSources == {"all", "T1", "Uncategorized"}

\* UIManager.selectedPath: the root.
selectedPath == << >>

\* this.answers.get(q.id) of a question without an answer (undefined).
NoAnswer == -1

\* `n || d` for a number n.
OrDefault(n, d) == IF n = 0 THEN d ELSE n

\* slice that keeps the whole array.
SliceAll(arr, end) == arr

\* arr.slice(0, end).
SliceTo(arr, end) ==
    LET last == IF end >= 0
                THEN (IF end < Len(arr) THEN end ELSE Len(arr))
                ELSE (IF Len(arr) + end > 0 THEN Len(arr) + end ELSE 0)
    IN SubSeq(arr, 1, last)

\* The candidates startQuiz resolves (lines 1735-1745): references.
Candidates(source) ==
    IF source = "all" THEN flatQuestions
    ELSE LET all == getQuestionsForSelection(flatQuestions, hierarchy, selectedPath).value
         IN SelectSeq(all, LAMBDA r : \/ heap[r].term = source
                                      \/ heap[r].subject = source
                                      \/ heap[r].lesson = source
                                      \/ heap[r].chapter = source)

\* render(): quiz-body shows the question at currentIndex, and its option
\* handlers hold that question.
render(questions, index) == [kind |-> "question", q |-> questions[index + 1]]

\* A missing answer read as option 0.
AnswerOrZero(ans, id) == IF id \in DOMAIN ans THEN ans[id] ELSE 0

Answer(ans, id) == IF id \in DOMAIN ans THEN ans[id] ELSE NoAnswer

\* submit that writes the first choice made for the first question only as
\* option 0.
SubmitWritesFirstAsZero(questions, ans, fileId) ==
    [i \in DOMAIN questions |->
        [kind |-> "quizPut",
         record |-> [questionId |-> questions[i].id,
                     fileId |-> fileId,
                     correct |-> Answer(ans, questions[i].id)
                                   = questions[i].correct_option_id,
                     selectedOption |-> IF i = 1 /\ questions[i].id \in DOMAIN ans
                                        THEN 0
                                        ELSE Answer(ans, questions[i].id)]]]

\* The saveProgress calls of submit, one for each session question.
SubmitWrites(questions, ans, fileId) ==
    [i \in DOMAIN questions |->
        [kind |-> "quizPut",
         record |-> [questionId |-> questions[i].id,
                     fileId |-> fileId,
                     correct |-> Answer(ans, questions[i].id)
                                   = questions[i].correct_option_id,
                     selectedOption |-> Answer(ans, questions[i].id)]]]

\* The `correct` counter of submit.
SubmitCorrect(questions, ans) ==
    Cardinality({i \in DOMAIN questions :
                   Answer(ans, questions[i].id) = questions[i].correct_option_id})

\* showResults(correct): what quiz-body shows.
showResults(correct, questions) ==
    [kind |-> "results", correct |-> correct, total |-> Len(questions),
     pct |-> Percent(correct, Len(questions))]

\* The test made on the time left after the decrement.
ExpiredAfterDecrement(t) == t - 1 <= 0

\* The test of updateDisplay, made on the time it displays, before the
\* decrement.
Expired(t) == t <= 0

\* submit(): it clears the interval, issues the writes without waiting for
\* them, and calls loadCurrentFiles; showResults waits for its promise.
\* The callback is kept with the writes of its submit, which tell one
\* refresh from another; it uses `correct` alone.
submit ==
    /\ LET fileId == IF Len(currentFiles) > 0 THEN currentFiles[1] ELSE "undefined"
           writes == SubmitWrites(quizQuestions, answers, fileId)
           correct == SubmitCorrect(quizQuestions, answers)
       IN /\ loadCurrentFiles(progressQueue \o writes,
                              [kind |-> "showResults", correct |-> correct,
                               writes |-> writes])
          /\ quizBody' = IF SettlesAtOnce
                         THEN showResults(correct, quizQuestions)
                         ELSE quizBody
          /\ quizFooter' = IF SettlesAtOnce THEN "results" ELSE quizFooter
    /\ timer' = FALSE
    /\ submits' = submits + 1

\* --------------------------------------------------------- quiz events
\* startQuiz without its test for an empty list of candidates.
StartQuizUnchecked(source) ==
    /\ nOps < MaxQuizOps
    /\ ~quizModalOpen
    /\ ~setup.open
    /\ nOps' = nOps + 1
    /\ LET questions == Candidates(source)
       IN setup' = [open |-> TRUE, alias |-> source = "all",
                    questions |-> IF source = "all" THEN << >>
                                  ELSE [i \in DOMAIN questions |->
                                          heap[questions[i]]]]
    /\ UNCHANGED <<engineVars, appCurrentFiles, storeVars, progressQueue,
                   favoritesQueue, lastCall, sessionVars, resultsPending>>

\* Click on a start-quiz button: startQuiz(source).  With no candidate it
\* shows a toast; else it shows the setup modal, whose quiz-start button
\* holds the candidates (for 'all' the flat array itself).
StartQuizClick(source) ==
    /\ nOps < MaxQuizOps
    /\ ~quizModalOpen
    /\ ~setup.open
    /\ nOps' = nOps + 1
    /\ LET questions == Candidates(source)
       IN setup' = IF Len(questions) = 0 THEN setup
                   ELSE [open |-> TRUE, alias |-> source = "all",
                         questions |-> IF source = "all" THEN << >>
                                       ELSE [i \in DOMAIN questions |->
                                               heap[questions[i]]]]
    /\ UNCHANGED <<engineVars, appCurrentFiles, storeVars, progressQueue,
                   favoritesQueue, lastCall, sessionVars, resultsPending>>

\* Click on quiz-cancel.
QuizCancelClick ==
    /\ nOps < MaxQuizOps
    /\ setup.open
    /\ nOps' = nOps + 1
    /\ setup' = NoSetup
    /\ UNCHANGED <<engineVars, appCurrentFiles, storeVars, progressQueue,
                   favoritesQueue, lastCall, sessionVars, resultsPending>>

\* Click on quiz-start: QuizManager.start(questions, {count, time}).  The
\* sort is in place: for 'all' it reorders the flat array.  The closure of
\* the button is not reachable again once the setup modal is hidden.
\* render() throws at line 473 when the footer holds the results buttons
\* (no quiz-progress element): start ends there, before startTimer.
QuizStartClick(count, time) ==
    /\ nOps < MaxQuizOps
    /\ setup.open
    /\ nOps' = nOps + 1
    /\ LET questions == IF setup.alias
                        THEN [i \in DOMAIN flatQuestions |-> heap[flatQuestions[i]]]
                        ELSE setup.questions
       IN IF Len(questions) = 0
          THEN UNCHANGED <<flatQuestions, sessionVars, setup>>
          ELSE \E f \in Permutations(DOMAIN questions) :
                 LET sorted == [i \in DOMAIN questions |-> questions[f[i]]]
                     session == SliceTo(sorted,
                                   IF OrDefault(count, DefaultCount) < Len(questions)
                                   THEN OrDefault(count, DefaultCount)
                                   ELSE Len(questions))
                 IN /\ flatQuestions' = IF setup.alias
                                        THEN [i \in DOMAIN flatQuestions |->
                                                flatQuestions[f[i]]]
                                        ELSE flatQuestions
                    /\ quizQuestions' = session
                    /\ currentIndex' = 0
                    /\ answers' = NoAnswers
                    /\ timeRemaining' =
                         IF quizFooter = "nav"
                         THEN OrDefault(time, DefaultTime) * SecondsPerMinute - 1
                         ELSE OrDefault(time, DefaultTime) * SecondsPerMinute
                    /\ quizActive' = TRUE
                    /\ setup' = NoSetup
                    /\ quizModalOpen' = TRUE
                    /\ quizBody' = render(session, 0)
                    /\ quizFooter' = quizFooter
                    /\ timer' = IF quizFooter = "nav" THEN TRUE ELSE timer
                    /\ ticks' = 0
                    /\ submits' = 0
    /\ UNCHANGED <<heap, hierarchy, currentFiles, progressCache, favoritesCache,
                   appCurrentFiles, storeVars, progressQueue, favoritesQueue,
                   lastCall, resultsPending>>

\* Click on an option of the question in quiz-body.
OptionClick(idx) ==
    /\ nOps < MaxQuizOps
    /\ quizModalOpen
    /\ quizBody.kind = "question"
    /\ nOps' = nOps + 1
    /\ answers' = (quizBody.q.id :> idx) @@ answers
    /\ quizBody' = render(quizQuestions, currentIndex)
    /\ UNCHANGED <<engineVars, appCurrentFiles, storeVars, progressQueue,
                   favoritesQueue, lastCall, quizActive, quizQuestions,
                   currentIndex, timer, timeRemaining, quizModalOpen,
                   quizFooter, ticks, submits, setup, resultsPending>>

\* next() that goes from the last question to the first.
NextWraps ==
    /\ nOps < MaxQuizOps
    /\ quizModalOpen
    /\ quizFooter = "nav"
    /\ nOps' = nOps + 1
    /\ currentIndex' = (currentIndex + 1) % Len(quizQuestions)
    /\ quizBody' = render(quizQuestions, (currentIndex + 1) % Len(quizQuestions))
    /\ UNCHANGED <<engineVars, appCurrentFiles, storeVars, progressQueue,
                   favoritesQueue, lastCall, quizActive, quizQuestions,
                   answers, timer, timeRemaining, quizModalOpen, quizFooter,
                   ticks, submits, setup, resultsPending>>

\* Click on quiz-next: next().
NextClick ==
    /\ nOps < MaxQuizOps
    /\ quizModalOpen
    /\ quizFooter = "nav"
    /\ nOps' = nOps + 1
    /\ IF currentIndex < Len(quizQuestions) - 1
       THEN /\ currentIndex' = currentIndex + 1
            /\ quizBody' = render(quizQuestions, currentIndex + 1)
       ELSE UNCHANGED <<currentIndex, quizBody>>
    /\ UNCHANGED <<engineVars, appCurrentFiles, storeVars, progressQueue,
                   favoritesQueue, lastCall, quizActive, quizQuestions,
                   answers, timer, timeRemaining, quizModalOpen, quizFooter,
                   ticks, submits, setup, resultsPending>>

\* Click on quiz-prev: prev().
PrevClick ==
    /\ nOps < MaxQuizOps
    /\ quizModalOpen
    /\ quizFooter = "nav"
    /\ nOps' = nOps + 1
    /\ IF currentIndex > 0
       THEN /\ currentIndex' = currentIndex - 1
            /\ quizBody' = render(quizQuestions, currentIndex - 1)
       ELSE UNCHANGED <<currentIndex, quizBody>>
    /\ UNCHANGED <<engineVars, appCurrentFiles, storeVars, progressQueue,
                   favoritesQueue, lastCall, quizActive, quizQuestions,
                   answers, timer, timeRemaining, quizModalOpen, quizFooter,
                   ticks, submits, setup, resultsPending>>

\* Click on quiz-submit.
SubmitClick ==
    /\ nOps < MaxQuizOps
    /\ quizModalOpen
    /\ quizFooter = "nav"
    /\ nOps' = nOps + 1
    /\ submit
    /\ UNCHANGED <<heap, hierarchy, favoritesCache, appCurrentFiles, storeVars,
                   favoritesQueue, quizActive, quizQuestions, currentIndex,
                   answers, timeRemaining, quizModalOpen, ticks, resultsPending>>

\* close() without its clearInterval.
CloseKeepsTimer ==
    /\ nOps < MaxQuizOps
    /\ nOps' = nOps + 1
    /\ quizActive' = FALSE
    /\ quizModalOpen' = FALSE
    /\ quizFooter' = "nav"
    /\ UNCHANGED <<engineVars, appCurrentFiles, storeVars, progressQueue,
                   favoritesQueue, lastCall, quizQuestions, currentIndex,
                   answers, timer, timeRemaining, quizBody, ticks, submits,
                   setup, resultsPending>>

\* close().
CloseClick ==
    /\ nOps < MaxQuizOps
    /\ nOps' = nOps + 1
    /\ quizActive' = FALSE
    /\ timer' = FALSE
    /\ quizModalOpen' = FALSE
    /\ quizFooter' = "nav"
    /\ UNCHANGED <<engineVars, appCurrentFiles, storeVars, progressQueue,
                   favoritesQueue, lastCall, quizQuestions, currentIndex,
                   answers, timeRemaining, quizBody, ticks, submits, setup,
                   resultsPending>>

\* The interval fires: updateDisplay.
Tick ==
    /\ timer
    /\ IF Expired(timeRemaining)
       THEN submit
       ELSE UNCHANGED <<flatQuestions, currentFiles, progressCache, setup,
                        progressQueue, lastCall, quizBody, quizFooter, timer,
                        submits>>
    /\ timeRemaining' = timeRemaining - 1
    /\ ticks' = ticks + 1
    /\ UNCHANGED <<heap, hierarchy, favoritesCache, appCurrentFiles, storeVars,
                   favoritesQueue, quizActive, quizQuestions, currentIndex,
                   answers, quizModalOpen, resultsPending, nOps>>

\* A saveProgress of submit completes; nothing waits for it.
QuizSaveProgressDone ==
    /\ Len(progressQueue) > 0
    /\ Head(progressQueue).kind = "quizPut"
    /\ progressStore' = (Head(progressQueue).record.questionId
                           :> Head(progressQueue).record) @@ progressStore
    /\ progressQueue' = Tail(progressQueue)
    /\ UNCHANGED <<engineVars, appCurrentFiles, favoritesStore, favoritesQueue,
                   lastCall, nOps, quizVars>>

\* saveSetting of a loadFiles that submit waits for completes: loadFiles
\* returns, and the then-callback of submit runs showResults.
SaveSettingDone ==
    /\ Len(resultsPending) > 0
    /\ quizBody' = showResults(Head(resultsPending).correct, quizQuestions)
    /\ quizFooter' = "results"
    /\ resultsPending' = Tail(resultsPending)
    /\ UNCHANGED <<engineVars, appCurrentFiles, storeVars, progressQueue,
                   favoritesQueue, lastCall, nOps, quizActive, quizQuestions,
                   currentIndex, answers, timer, timeRemaining, quizModalOpen,
                   ticks, submits, setup>>

\* The selections loaded when the quiz is used: a file with three
\* questions, and a file whose one question has no term.
QuizSelections == { <<Manifest[1]>>, <<Manifest[2], Manifest[3]>> }

\* The state after loadFiles of one of them has run to its end on the
\* constructed application.
QuizInit ==
    \E QuizFiles \in QuizSelections :
    LET pushed == ProcessFiles(FilesData(QuizFiles, 1), 1, NoProgress, {})
        flat == [i \in 1..Len(pushed.objs) |-> i]
    IN /\ heap = pushed.objs
       /\ flatQuestions = flat
       /\ hierarchy = buildHierarchy(flat, pushed.objs)
       /\ currentFiles = pushed.files
       /\ progressCache = NoProgress
       /\ favoritesCache = {}
       /\ appCurrentFiles = QuizFiles
       /\ progressStore = NoProgress
       /\ favoritesStore = NoProgress
       /\ progressQueue = << >>
       /\ favoritesQueue = << >>
       /\ lastCall = Call("loadMultipleFiles", 0, FALSE)
       /\ nOps = 0
       /\ QuizConstructed

QuizNext ==
    \/ \E source \in QuizSources : StartQuizClick(source)
    \/ QuizCancelClick
    \/ \E count \in CountInputs, time \in TimeInputs : QuizStartClick(count, time)
    \/ \E idx \in OptionIndices : OptionClick(idx)
    \/ NextClick
    \/ PrevClick
    \/ SubmitClick
    \/ CloseClick
    \/ Tick
    \/ QuizSaveProgressDone
    \/ GetAllProgressDone
    \/ GetAllFavoritesDone
    \/ SaveSettingDone

QuizSpec == QuizInit /\ [][QuizNext]_vars

\* ------------------------------------------------------ scored sessions
\* A file of MaxTotal questions, each with option 0 as its correct one.
ScoreFiles == <<"big.json">>

\* The state in which the submit button is shown: the file is loaded, a
\* session of `total` of its questions is on its last question, and
\* `correct` of them have been answered, each with its correct option.
ScoreInit ==
    \E total \in 1..MaxTotal :
    \E correct \in 0..total :
    LET pushed == ProcessFiles(FilesData(ScoreFiles, 1), 1, NoProgress, {})
        flat == [i \in 1..Len(pushed.objs) |-> i]
        sample == [i \in 1..total |-> pushed.objs[i]]
    IN /\ heap = pushed.objs
       /\ flatQuestions = flat
       /\ hierarchy = buildHierarchy(flat, pushed.objs)
       /\ currentFiles = pushed.files
       /\ progressCache = NoProgress
       /\ favoritesCache = {}
       /\ appCurrentFiles = ScoreFiles
       /\ progressStore = NoProgress
       /\ favoritesStore = NoProgress
       /\ progressQueue = << >>
       /\ favoritesQueue = << >>
       /\ lastCall = Call("loadMultipleFiles", 0, FALSE)
       /\ nOps = MaxQuizOps - 1
       /\ quizActive = TRUE
       /\ quizQuestions = sample
       /\ currentIndex = total - 1
       /\ answers = [id \in 1..correct |-> sample[id].correct_option_id]
       /\ timer = TRUE
       /\ timeRemaining = SecondsPerMinute - 1
       /\ setup = NoSetup
       /\ quizModalOpen = TRUE
       /\ quizBody = render(sample, total - 1)
       /\ quizFooter = "nav"
       /\ resultsPending = << >>
       /\ ticks = 0
       /\ submits = 0

\* The submit click and the completions that lead to the results.
ScoreNext ==
    \/ SubmitClick
    \/ QuizSaveProgressDone
    \/ GetAllProgressDone
    \/ GetAllFavoritesDone
    \/ SaveSettingDone

ScoreSpec == ScoreInit /\ [][ScoreNext]_vars

AllIds == {1, 2, 3, 4}

Next ==
    \/ \E filenames \in Selections : LoadSelected(filenames)
    \/ \E questionId \in AllIds, selectedOption \in OptionIndices :
          AnswerClick(questionId, selectedOption)
    \/ \E questionId \in AllIds : FavoriteClick(questionId)
    \/ \E questionId \in AllIds : ResetClick(questionId)
    \/ ResetProgressClick
    \/ ResetFavoritesClick
    \/ GetAllProgressDone
    \/ SaveProgressDone
    \/ DeleteProgressDone
    \/ ClearProgressDone
    \/ IsFavoriteDone
    \/ FavoriteWriteDone
    \/ GetAllFavoritesDone
    \/ ClearFavoritesDone

Spec == Init /\ [][Next]_vars

\* ------------------------------------------- failures of IndexedDB requests
\* A request can fail: its onerror handler rejects the promise of the
\* DatabaseManager method, and the store is left as it was.

\* The put of saveProgress fails: the await of answerQuestion throws, the
\* function has no try, and its promise is rejected before
\* updateQuestionStatus is reached.
SaveProgressFailed ==
    /\ Len(progressQueue) > 0
    /\ Head(progressQueue).kind = "put"
    /\ progressQueue' = Tail(progressQueue)
    /\ lastCall' = Call("answerQuestion.rejected",
                        Head(progressQueue).record.questionId, FALSE)
    /\ UNCHANGED <<engineVars, appCurrentFiles, storeVars, favoritesQueue, nOps,
                   quizVars>>

\* The delete or put of DatabaseManager.toggleFavorite fails: its promise is
\* rejected, and the catch of MCQProApp.toggleFavorite shows a toast.
FavoriteWriteFailed ==
    /\ Len(favoritesQueue) > 0
    /\ Head(favoritesQueue).kind = "write"
    /\ favoritesQueue' = Tail(favoritesQueue)
    /\ lastCall' = Call("toggleFavorite.error",
                        Head(favoritesQueue).questionId, FALSE)
    /\ UNCHANGED <<engineVars, appCurrentFiles, storeVars, progressQueue, nOps,
                   quizVars>>

\* isFavorite inside DatabaseManager.toggleFavorite fails: the await throws
\* inside the async executor, whose own promise is rejected and held by
\* nobody; neither resolve nor reject of the promise that was returned is
\* called, and MCQProApp.toggleFavorite stays at its await.
IsFavoriteFailed ==
    /\ Len(favoritesQueue) > 0
    /\ Head(favoritesQueue).kind = "isFavorite"
    /\ favoritesQueue' = Tail(favoritesQueue)
    /\ UNCHANGED <<engineVars, appCurrentFiles, storeVars, progressQueue,
                   lastCall, nOps, quizVars>>

\* A read of loadMultipleFiles fails: loadMultipleFiles throws, the catch
\* of loadFiles shows a toast, and loadFiles returns; what waits for its
\* promise runs.
loadFilesCaught(then) ==
    /\ lastCall' = Call("loadFiles.error", 0, FALSE)
    /\ quizBody' = IF then = NoThen THEN quizBody
                   ELSE showResults(then.correct, quizQuestions)
    /\ quizFooter' = IF then = NoThen THEN quizFooter ELSE "results"
    /\ UNCHANGED <<engineVars, appCurrentFiles, storeVars, nOps, quizActive,
                   quizQuestions, currentIndex, answers, timer, timeRemaining,
                   quizModalOpen, ticks, submits, setup, resultsPending>>

GetAllProgressFailed ==
    /\ Len(progressQueue) > 0
    /\ Head(progressQueue).kind = "getAllProgress"
    /\ progressQueue' = Tail(progressQueue)
    /\ loadFilesCaught(Head(progressQueue).then)
    /\ UNCHANGED favoritesQueue

GetAllFavoritesFailed ==
    /\ Len(favoritesQueue) > 0
    /\ Head(favoritesQueue).kind = "getAllFavorites"
    /\ favoritesQueue' = Tail(favoritesQueue)
    /\ loadFilesCaught(Head(favoritesQueue).then)
    /\ UNCHANGED progressQueue

\* The application with requests that can fail.
FaultNext ==
    \/ Next
    \/ SaveProgressFailed
    \/ FavoriteWriteFailed
    \/ IsFavoriteFailed
    \/ GetAllProgressFailed
    \/ GetAllFavoritesFailed

FaultSpec == Init /\ [][FaultNext]_vars

\* ============================================ UIManager.renderQuestionView
\* A string is the sequence of its characters.  The letters of the texts
\* below are a, b and c, in either case.
ToLowerCase(str) ==
    [i \in DOMAIN str |-> CASE str[i] = "A" -> "a"
                             [] str[i] = "B" -> "b"
                             [] str[i] = "C" -> "c"
                             [] OTHER -> str[i]]

\* str.includes(sub)
Includes(str, sub) ==
    \E off \in 0..(Len(str) - Len(sub)) : SubSeq(str, off + 1, off + Len(sub)) = sub

\* The text fields of the question objects, by id: `question`, `options`
\* and the optional `explanation` (<< >> where the object has none).  No
\* operation writes them; the spread of loadMultipleFiles copies them.
QuestionText(id) ==
    CASE id = 1 -> [question |-> <<"A", "b">>, explanation |-> << >>,
                    options |-> << <<"c">>, <<"C", "c">> >>]
      [] id = 2 -> [question |-> <<"c">>, explanation |-> <<"B", "A", "B">>,
                    options |-> << <<"c">>, <<"a">> >>]
      [] id = 3 -> [question |-> <<"b", "a">>, explanation |-> << >>,
                    options |-> << <<"C">>, <<"c", "B", "a">> >>]
      [] OTHER  -> [question |-> <<"b", "a">>, explanation |-> <<"b">>,
                    options |-> << <<"a">>, <<"c", "A", "b">> >>]

\* The views renderQuestionView draws, and what the search input can hold.
Views == {"solve", "review", "history", "mistakes", "favorites"}

SearchInputs == { << >>, <<"a", "B">>, <<"C", "c">> }

\* The input handler of search-input: this.searchQuery.
searchQuery(value) == ToLowerCase(value)

\* The filter by view type with `!q.correct` alone for the mistakes.
ViewFilterMistakesNotCorrect(view, q) ==
    CASE view = "solve"     -> ~q.solved
      [] view = "mistakes"  -> ~q.correct
      [] view = "favorites" -> q.favorite
      [] view = "history"   -> q.solved
      [] OTHER              -> TRUE

\* The filter by view type (lines 1012-1020).
ViewFilter(view, q) ==
    CASE view = "solve"     -> ~q.solved
      [] view = "mistakes"  -> q.solved /\ ~q.correct
      [] view = "favorites" -> q.favorite
      [] view = "history"   -> q.solved
      [] OTHER              -> TRUE

\* The search filter (lines 1025-1031); `query` is this.searchQuery.
SearchFilter(query, q) ==
    LET text == QuestionText(q.id)
    IN IF query = << >> THEN TRUE
       ELSE \/ Includes(ToLowerCase(text.question), query)
            \/ ( /\ text.explanation # << >>
                 /\ Includes(ToLowerCase(text.explanation), query) )
            \/ \E i \in DOMAIN text.options :
                  Includes(ToLowerCase(text.options[i]), query)

\* The `questions` of renderQuestionView when it draws the cards.
renderQuestionView(flat, h, objs, path, view, query) ==
    LET selection == getQuestionsForSelection(flat, h, path)
        ByView(r) == ViewFilter(view, objs[r])
        BySearch(r) == SearchFilter(query, objs[r])
    IN IF selection.threw THEN Throws
       ELSE Returns(SelectSeq(SelectSeq(selection.value, ByView), BySearch))

\* --------------------------------------------- UIManager.groupQuestions
\* The group key of one question: the field of the level below the
\* selection, or its default when the field is falsy.
GroupKey(q, pathLen) ==
    CASE pathLen = 0 -> Default(q.term, "Uncategorized")
      [] pathLen = 1 -> Default(q.subject, "General")
      [] pathLen = 2 -> Default(q.lesson, "General")
      [] pathLen = 3 -> Default(q.chapter, "General")
      [] OTHER       -> "Questions"

\* groupQuestions with the key of a chapter for every selection of three
\* or more keys.
RECURSIVE groupQuestionsNoFixedLabel(_, _, _, _, _)
groupQuestionsNoFixedLabel(questions, objs, pathLen, groups, i) ==
    IF i > Len(questions) \/ Len(groups.keys) < 0 THEN Returns(groups)
    ELSE LET q == objs[questions[i]]
             groupKey == GroupKey(q, IF pathLen > 3 THEN 3 ELSE pathLen)
         IN IF Has(groups, groupKey)
            THEN groupQuestionsNoFixedLabel(questions, objs, pathLen,
                     SetProp(groups, groupKey,
                             Append(groups.val[groupKey], questions[i])), i + 1)
            ELSE IF groupKey \in ObjectPrototypeKeys THEN Throws
            ELSE groupQuestionsNoFixedLabel(questions, objs, pathLen,
                     SetProp(groups, groupKey, <<questions[i]>>), i + 1)

\* groupQuestions(questions): `groups` is a plain object, so its keys come
\* out in Object.entries order.  `groups[groupKey]` of a name inherited
\* from Object.prototype is truthy and has no push: the call throws.
RECURSIVE groupQuestions(_, _, _, _, _)
groupQuestions(questions, objs, pathLen, groups, i) ==
    IF i > Len(questions) \/ Len(groups.keys) < 0 THEN Returns(groups)
    ELSE LET q == objs[questions[i]]
             groupKey == GroupKey(q, pathLen)
         IN IF Has(groups, groupKey)
            THEN groupQuestions(questions, objs, pathLen,
                     SetProp(groups, groupKey,
                             Append(groups.val[groupKey], questions[i])), i + 1)
            ELSE IF groupKey \in ObjectPrototypeKeys THEN Throws
            ELSE groupQuestions(questions, objs, pathLen,
                     SetProp(groups, groupKey, <<questions[i]>>), i + 1)

\* The selection loaded when the views are drawn: the well-formed files.
ViewFiles == <<Manifest[1], Manifest[3], Manifest[4]>>

\* The state after loadFiles of them has run to its end on the constructed
\* application.
ViewInit ==
    LET pushed == ProcessFiles(FilesData(ViewFiles, 1), 1, NoProgress, {})
        flat == [i \in 1..Len(pushed.objs) |-> i]
    IN /\ heap = pushed.objs
       /\ flatQuestions = flat
       /\ hierarchy = buildHierarchy(flat, pushed.objs)
       /\ currentFiles = pushed.files
       /\ progressCache = NoProgress
       /\ favoritesCache = {}
       /\ appCurrentFiles = ViewFiles
       /\ progressStore = NoProgress
       /\ favoritesStore = NoProgress
       /\ progressQueue = << >>
       /\ favoritesQueue = << >>
       /\ lastCall = Call("loadMultipleFiles", 0, FALSE)
       /\ nOps = 0
       /\ QuizConstructed

\* The clicks on the cards of a view, each made when the requests of the
\* click before it have completed, and the completions of their requests:
\* what changes the flags the views select by.
Quiescent == progressQueue = << >> /\ favoritesQueue = << >>

ViewNext ==
    \/ /\ Quiescent
       /\ \E questionId \in AllIds, selectedOption \in OptionIndices :
             AnswerClick(questionId, selectedOption)
    \/ /\ Quiescent
       /\ \E questionId \in AllIds : FavoriteClick(questionId)
    \/ /\ Quiescent
       /\ \E questionId \in AllIds : ResetClick(questionId)
    \/ SaveProgressDone
    \/ DeleteProgressDone
    \/ IsFavoriteDone
    \/ FavoriteWriteDone

ViewSpec == ViewInit /\ [][ViewNext]_vars

\* ------------------------------------------------------ running sessions
\* The selection loaded when a session is followed to its end: the file of
\* one question, behind the malformed one.
LiveFiles == <<Manifest[2], Manifest[3]>>

\* The state in which a session runs: the files are loaded, quiz-start has
\* been clicked on all the questions, and the countdown of one minute has
\* come down to its last second.  The clicks are counted from the start of
\* the session.
LiveInit ==
    LET pushed == ProcessFiles(FilesData(LiveFiles, 1), 1, NoProgress, {})
        flat == [i \in 1..Len(pushed.objs) |-> i]
    IN /\ heap = pushed.objs
       /\ flatQuestions = flat
       /\ hierarchy = buildHierarchy(flat, pushed.objs)
       /\ currentFiles = pushed.files
       /\ progressCache = NoProgress
       /\ favoritesCache = {}
       /\ appCurrentFiles = LiveFiles
       /\ progressStore = NoProgress
       /\ favoritesStore = NoProgress
       /\ progressQueue = << >>
       /\ favoritesQueue = << >>
       /\ lastCall = Call("loadMultipleFiles", 0, FALSE)
       /\ nOps = 1
       /\ quizActive = TRUE
       /\ quizQuestions = pushed.objs
       /\ currentIndex = 0
       /\ answers = NoAnswers
       /\ timer = TRUE
       /\ timeRemaining = 1
       /\ setup = NoSetup
       /\ quizModalOpen = TRUE
       /\ quizBody = render(pushed.objs, 0)
       /\ quizFooter = "nav"
       /\ resultsPending = << >>
       /\ ticks = SecondsPerMinute - 2
       /\ submits = 0

\* The interval keeps firing while it is set, and every request that was
\* made completes.
\* (For getAllFavorites the weak fairness is written out, with the guard of
\* the completion in the place of ENABLED.)
LiveFairness ==
    /\ WF_vars(Tick)
    /\ WF_vars(QuizSaveProgressDone)
    /\ WF_vars(GetAllProgressDone)
    /\ \/ []<>~( /\ Len(favoritesQueue) > 0
                 /\ Head(favoritesQueue).kind = "getAllFavorites" )
       \/ []<><<GetAllFavoritesDone>>_vars
    /\ WF_vars(SaveSettingDone)

\* The countdown, the clicks that close a session and start the next one,
\* and the completions of the requests of submit.
LiveNext ==
    \/ Tick
    \/ SubmitClick
    \/ CloseClick
    \/ \E source \in QuizSources : StartQuizClick(source)
    \/ \E count \in CountInputs, time \in TimeInputs : QuizStartClick(count, time)
    \/ QuizSaveProgressDone
    \/ GetAllProgressDone
    \/ GetAllFavoritesDone
    \/ SaveSettingDone

LiveSpec == LiveInit /\ [][LiveNext]_vars /\ LiveFairness

\* ======================================================== properties
\* The paths of one to four keys that exist in a tree, and the node at one.
RECURSIVE PathsBelow(_)
PathsBelow(obj) ==
    UNION { {<<k>>} \cup
            (IF HasQuestions(obj.val[k]) THEN {}
             ELSE { <<k>> \o p : p \in PathsBelow(obj.val[k].children) })
          : k \in DOMAIN obj.val }

RECURSIVE NodeAt(_, _, _)
NodeAt(obj, path, i) ==
    IF i = Len(path) THEN obj.val[path[i]]
    ELSE NodeAt(obj.val[path[i]].children, path, i + 1)

RECURSIVE FieldSum(_, _, _)
FieldSum(obj, field, i) ==
    IF i > Len(obj.keys) THEN 0
    ELSE obj.val[obj.keys[i]].stats[field] + FieldSum(obj, field, i + 1)

IsPrefix(p, q) == Len(p) <= Len(q) /\ SubSeq(q, 1, Len(p)) = p

\* The objects the chapters of a tree hold.
RefsIn(h) ==
    UNION { IF HasQuestions(NodeAt(h, p, 1))
            THEN {NodeAt(h, p, 1).questions[i] : i \in DOMAIN NodeAt(h, p, 1).questions}
            ELSE {}
          : p \in PathsBelow(h) }

\* C1: every branch node's stats are the element-wise sum of its children's
\* stats, and every chapter's stats count its questions, its solved
\* questions and its correct questions.
C1_StatsAreSums ==
    \A p \in PathsBelow(hierarchy) :
        LET n == NodeAt(hierarchy, p, 1)
        IN IF HasQuestions(n)
           THEN /\ n.stats.total = Len(n.questions)
                /\ n.stats.solved =
                     Cardinality({i \in DOMAIN n.questions : heap[n.questions[i]].solved})
                /\ n.stats.correct =
                     Cardinality({i \in DOMAIN n.questions : heap[n.questions[i]].correct})
           ELSE \A field \in {"total", "solved", "correct"} :
                     n.stats[field] = FieldSum(n.children, field, 1)

\* An answer has been applied to a tree whose term T1 has two subjects.
C1_Witness ==
    /\ lastCall.op = "updateQuestionStatus"
    /\ Has(hierarchy, "T1")
    /\ Len(hierarchy.val["T1"].children.keys) = 2
    /\ hierarchy.val["T1"].stats.solved >= 1
    /\ hierarchy.val["T1"].stats.total = 3

\* The objects that carry an id.
WithId(objs, questionId) == {r \in DOMAIN objs : objs[r].id = questionId}

\* C2: toggleFavorite(id) on a loaded id flips the favorite flag of the
\* matching question, and returns the flag the question has after the call.
C2_ToggleFlipsAndReports ==
    [][ FavoriteWriteDone =>
          \A r \in WithId(heap, Head(favoritesQueue).questionId) :
              /\ heap'[r].favorite = ~heap[r].favorite
              /\ lastCall'.ret = heap'[r].favorite ]_vars

\* C3: the favorite-id set mirrors the flags: a loaded question is a
\* favorite exactly when its id is in the set.
C3_FavoriteSetMirrorsFlags ==
    \A r \in DOMAIN heap : heap[r].favorite <=> heap[r].id \in favoritesCache

\* The steps that run updateQuestionStatus(questionId, TRUE): the completion
\* of the saveProgress of a correct answer.
UpdateStatusTrue(questionId) ==
    /\ SaveProgressDone
    /\ Head(progressQueue).record.questionId = questionId
    /\ Head(progressQueue).isCorrect

StatsAt(h, p) == NodeAt(h, p, 1).stats

\* C4: updateStatus(id, true) for a loaded, unsolved id sets solved and
\* correct on exactly one question and changes no other question; the
\* chapter of that question and its lesson, subject and term gain one solved
\* and one correct with the same total; every other node keeps its stats.
C4_UpdateStatusTrue ==
    [][ \A questionId \in AllIds :
          ( /\ UpdateStatusTrue(questionId)
            /\ WithId(heap, questionId) # {}
            /\ \A r \in WithId(heap, questionId) : ~heap[r].solved )
          => /\ DOMAIN heap' = DOMAIN heap
             /\ PathsBelow(hierarchy') = PathsBelow(hierarchy)
             /\ \E r \in WithId(heap, questionId) :
                  /\ heap'[r] = [heap[r] EXCEPT !.solved = TRUE, !.correct = TRUE]
                  /\ \A o \in DOMAIN heap \ {r} : heap'[o] = heap[o]
                  /\ \A p \in PathsBelow(hierarchy) :
                       StatsAt(hierarchy', p) =
                         IF IsPrefix(p, ChapterPath(heap[r]))
                         THEN [total   |-> StatsAt(hierarchy, p).total,
                               solved  |-> StatsAt(hierarchy, p).solved + 1,
                               correct |-> StatsAt(hierarchy, p).correct + 1]
                         ELSE StatsAt(hierarchy, p) ]_vars

\* A correct answer to question 1 has just been applied while both files
\* are loaded (two terms), and question 2 of the same chapter is unsolved.
C4_Witness ==
    /\ lastCall = Call("updateQuestionStatus", 1, FALSE)
    /\ Len(hierarchy.keys) = 2
    /\ \E r \in WithId(heap, 1) : heap[r].solved /\ heap[r].correct
    /\ \E r \in WithId(heap, 2) : ~heap[r].solved
    /\ hierarchy.val["T1"].stats = [total |-> 3, solved |-> 1, correct |-> 1]

\* C5: an ingest computes the flags of the questions it pushes from the
\* snapshots it read and from nothing else: solved iff the progress snapshot
\* has a record for the id, correct iff that record is correct, favorite iff
\* the id is in the favorite snapshot.
C5_IngestRecomputesFlags ==
    [][ GetAllFavoritesDone =>
          LET allProgress == Head(favoritesQueue).allProgress
              allFavorites == DOMAIN favoritesStore
          IN \A r \in (Len(flatQuestions) + 1)..Len(heap') :
                /\ heap'[r].solved <=> heap'[r].id \in DOMAIN allProgress
                /\ heap'[r].correct <=> ( /\ heap'[r].id \in DOMAIN allProgress
                                          /\ allProgress[heap'[r].id].correct )
                /\ heap'[r].favorite <=> heap'[r].id \in allFavorites ]_vars

\* What a tree shows: the stats of every node, and for every chapter the id
\* and the solved and correct flags of its questions, in list order.
TreeView(h, objs) ==
    [p \in PathsBelow(h) |->
        LET n == NodeAt(h, p, 1)
        IN IF HasQuestions(n)
           THEN [stats |-> n.stats,
                 questions |-> [i \in DOMAIN n.questions |->
                                  [id |-> objs[n.questions[i]].id,
                                   solved |-> objs[n.questions[i]].solved,
                                   correct |-> objs[n.questions[i]].correct]]]
           ELSE [stats |-> n.stats]]

\* The questions of a file set, in order: file name and id.
RECURSIVE QuestionKeys(_, _)
QuestionKeys(filesData, i) ==
    IF i > Len(filesData) THEN << >>
    ELSE [j \in 1..Len(filesData[i].data.questions) |->
            <<filesData[i].filename, filesData[i].data.questions[j].id>>]
         \o QuestionKeys(filesData, i + 1)

\* The ingest that completes re-ingests the files the tree in memory was
\* built from, and runs alone (no other ingest has completed since it
\* cleared the flat index).
ReIngestOfSameFiles(req) ==
    /\ flatQuestions = << >>
    /\ heap # << >>
    /\ [r \in DOMAIN heap |-> <<heap[r].fileId, heap[r].id>>]
         = QuestionKeys(req.filesData, 1)

\* The progress snapshot an ingest read records the tree in memory: a
\* question is solved iff the snapshot has its record, and correct iff that
\* record is.
AccurateSnapshot(allProgress) ==
    \A r \in DOMAIN heap :
        /\ heap[r].solved <=> heap[r].id \in DOMAIN allProgress
        /\ heap[r].correct <=> ( /\ heap[r].id \in DOMAIN allProgress
                                 /\ allProgress[heap[r].id].correct )

\* C6: round trip.  An answer leaves the question it is applied to solved,
\* with the correct flag of the record it wrote; and a re-ingest of the same
\* files with a progress snapshot that records the answers rebuilds a tree
\* with the same flags on every question and the same stats on every node
\* as the tree in memory before it.
C6_RoundTrip ==
    [][ /\ SaveProgressDone =>
             LET questionId == Head(progressQueue).record.questionId
             IN /\ questionId \in DOMAIN progressStore'
                /\ WithId(heap, questionId) # {} =>
                     \E r \in WithId(heap, questionId) :
                         /\ heap'[r].solved
                         /\ heap'[r].correct = progressStore'[questionId].correct
        /\ ( /\ GetAllFavoritesDone
             /\ ReIngestOfSameFiles(Head(favoritesQueue))
             /\ AccurateSnapshot(Head(favoritesQueue).allProgress) )
           => TreeView(hierarchy', heap') = TreeView(hierarchy, heap) ]_vars

\* A re-ingest has just rebuilt the tree, and the rebuilt tree shows a
\* solved question: the record of the answer given before the re-ingest.
C6_Witness ==
    /\ lastCall.op = "loadMultipleFiles"
    /\ nOps = 3
    /\ progressQueue = << >> /\ favoritesQueue = << >>
    /\ DOMAIN progressStore # {}
    /\ \A r \in DOMAIN heap : heap[r].solved <=> heap[r].id \in DOMAIN progressStore
    /\ \E r \in DOMAIN heap : heap[r].solved /\ ~heap[r].correct
    /\ Len(flatQuestions) = Len(heap)
    /\ \A i, j \in DOMAIN heap : heap[i].id = heap[j].id => i = j

\* An ingest is outstanding from its call to its return: its request waits
\* on one of the two stores.
OutstandingIngests ==
    Cardinality({i \in DOMAIN progressQueue : progressQueue[i].kind = "getAllProgress"})
    + Cardinality({i \in DOMAIN favoritesQueue : favoritesQueue[i].kind = "getAllFavorites"})

\* The questions of the flat index, in order: file name and id.
FlatKeys(flat, objs) ==
    [i \in DOMAIN flat |-> <<objs[flat[i]].fileId, objs[flat[i]].id>>]

\* C7: last writer wins.  When the last outstanding ingest returns, the flat
\* index holds the questions of that call's files, each exactly once and in
\* order, and the tree holds the same objects: nothing an earlier ingest
\* pushed remains.
C7_LastWriterWins ==
    [][ (GetAllFavoritesDone /\ OutstandingIngests = 1) =>
          /\ FlatKeys(flatQuestions', heap')
               = QuestionKeys(Head(favoritesQueue).filesData, 1)
          /\ RefsIn(hierarchy') = {flatQuestions'[i] : i \in DOMAIN flatQuestions'} ]_vars

\* C8: between any two steps (every state is a point where the handlers have
\* yielded), the flat index and the tree hold the same questions.
C8_FlatIndexMatchesTree ==
    {flatQuestions[i] : i \in DOMAIN flatQuestions} = RefsIn(hierarchy)

\* Keys to extend a path with: one no tree has, an inherited property name,
\* and two property names of an array.
ProbeKeys == {"Nope", "constructor", "length", "0"}

\* Paths with a key that does not exist at its level: the empty path or an
\* existing path, followed by one or two keys, and not itself existing.
MissingPaths(h) ==
    LET existing == PathsBelow(h) \cup {<< >>}
        one == {p \o <<k>> : p \in existing, k \in ProbeKeys}
        two == {p \o <<k>> : p \in one, k \in ProbeKeys}
    IN (one \cup two) \ PathsBelow(h)

\* C9: the query of a path with a key that does not exist at its level
\* returns the empty sequence and does not throw.
C9_MissingPathIsEmpty ==
    \A p \in MissingPaths(hierarchy) :
        getQuestionsForSelection(flatQuestions, hierarchy, p) = Returns(<< >>)

\* The chapters at or below an existing path.
ChaptersBelow(h, p) ==
    {q \in PathsBelow(h) : IsPrefix(p, q) /\ HasQuestions(NodeAt(h, q, 1))}

\* The place of a key among the keys of an object, in Object.values order.
KeyPos(obj, k) == CHOOSE i \in DOMAIN obj.keys : obj.keys[i] = k

\* Chapter q1 comes before chapter q2 in the traversal: at the first level
\* where they part, the key of q1 comes first.
Before(h, q1, q2) ==
    \E d \in 1..Len(q1) :
        /\ d <= Len(q2)
        /\ SubSeq(q1, 1, d - 1) = SubSeq(q2, 1, d - 1)
        /\ q1[d] # q2[d]
        /\ LET parent == IF d = 1 THEN h
                         ELSE NodeAt(h, SubSeq(q1, 1, d - 1), 1).children
           IN KeyPos(parent, q1[d]) < KeyPos(parent, q2[d])

RECURSIVE TotalLen(_, _)
TotalLen(h, chapters) ==
    IF chapters = {} THEN 0
    ELSE LET q == CHOOSE c \in chapters : TRUE
         IN Len(NodeAt(h, q, 1).questions) + TotalLen(h, chapters \ {q})

\* C10: the query of an existing path does not throw; at a chapter it
\* returns the chapter's list; at a branch it returns the lists of the
\* chapters below it one after the other in traversal order, each in list
\* order; and its length is the stats.total of the node.
C10_QueryExistingPath ==
    \A p \in PathsBelow(hierarchy) :
        LET n == NodeAt(hierarchy, p, 1)
            r == getQuestionsForSelection(flatQuestions, hierarchy, p)
            chapters == ChaptersBelow(hierarchy, p)
        IN /\ ~r.threw
           /\ HasQuestions(n) => r.value = n.questions
           /\ Len(r.value) = TotalLen(hierarchy, chapters)
           /\ \A q \in chapters :
                LET offset == TotalLen(hierarchy,
                                {c \in chapters : Before(hierarchy, c, q)})
                    list == NodeAt(hierarchy, q, 1).questions
                IN \A j \in DOMAIN list : r.value[offset + j] = list[j]
           /\ Len(r.value) = n.stats.total

\* The query of a term with two subjects has returned the question of the
\* subject whose key is an array index first, then the two questions of the
\* other subject in list order.
C10_Witness ==
    /\ <<"T1">> \in PathsBelow(hierarchy)
    /\ Len(hierarchy.val["T1"].children.keys) = 2
    /\ LET r == getQuestionsForSelection(flatQuestions, hierarchy, <<"T1">>)
       IN /\ ~r.threw
          /\ [i \in DOMAIN r.value |-> heap[r.value[i]].id] = <<3, 1, 2>>

\* C11: when an ingest completes, the query of the empty path returns the
\* flat index, and the flat index holds one object for every question of the
\* accepted files of that ingest, in order, each with the name of its file
\* as fileId.
C11_EmptyPathIsFlatIndex ==
    [][ GetAllFavoritesDone =>
          /\ getQuestionsForSelection(flatQuestions', hierarchy', << >>)
               = Returns(flatQuestions')
          /\ Len(flatQuestions')
               = Len(QuestionKeys(Head(favoritesQueue).filesData, 1))
          /\ \A i \in DOMAIN flatQuestions' :
               <<heap'[flatQuestions'[i]].fileId, heap'[flatQuestions'[i]].id>>
                 = QuestionKeys(Head(favoritesQueue).filesData, 1)[i] ]_vars

\* ------------------------------------------------------ quiz properties
\* The candidates the quiz-start button holds.
SetupCandidates ==
    IF setup.alias THEN [i \in DOMAIN flatQuestions |-> heap[flatQuestions[i]]]
    ELSE setup.questions

\* The steps of a session that are neither its start nor its close.
SessionStep ==
    \/ \E idx \in OptionIndices : OptionClick(idx)
    \/ NextClick
    \/ PrevClick
    \/ Tick
    \/ SubmitClick

\* C12: a start with candidates and a positive count leaves a session of
\* min(count, number of candidates) questions, no two the same, each one a
\* candidate; and answer, next, prev, tick and submit leave the sequence of
\* session questions as it is.
C12_SampleIsFixed ==
    [][ /\ \A count \in CountInputs, time \in TimeInputs :
             ( /\ QuizStartClick(count, time)
               /\ Len(SetupCandidates) > 0
               /\ count > 0 ) =>
             /\ Len(quizQuestions')
                  = (IF count < Len(SetupCandidates) THEN count
                     ELSE Len(SetupCandidates))
             /\ \A i, j \in DOMAIN quizQuestions' :
                  i # j => quizQuestions'[i] # quizQuestions'[j]
             /\ \A i \in DOMAIN quizQuestions' :
                  \E j \in DOMAIN SetupCandidates :
                      quizQuestions'[i] = SetupCandidates[j]
        /\ SessionStep => quizQuestions' = quizQuestions ]_vars

\* A session of two of the three candidates, after an answer and a next.
C12_Witness ==
    /\ quizActive
    /\ Len(quizQuestions) = 2
    /\ Len(flatQuestions) = 3
    /\ currentIndex = 1
    /\ DOMAIN answers # {}

\* C13: a start that sets the interval leaves timeRemaining at the limit
\* less the one second of the display it makes; every periodic tick takes
\* one second more; a tick calls submit exactly when the time it finds is
\* 0, and that tick is the one whose number is the limit in seconds.
C13_CountdownHasNoOffByOne ==
    [][ /\ \A count \in CountInputs, time \in TimeInputs :
             (QuizStartClick(count, time) /\ Len(SetupCandidates) > 0) =>
                 /\ timer' => timeRemaining' = time * SecondsPerMinute - 1
                 /\ ticks' = 0
                 /\ submits' = 0
        /\ Tick =>
             /\ timeRemaining' = timeRemaining - 1
             /\ ticks' = ticks + 1
             /\ (submits' = submits + 1) <=> (timeRemaining = 0)
             /\ (submits' # submits) =>
                  \E time \in TimeInputs : ticks' = time * SecondsPerMinute ]_vars

\* The countdown of a session has expired, and the tick that found 0 was
\* the sixtieth.
C13_Witness ==
    /\ submits = 1
    /\ ticks = SecondsPerMinute
    /\ timeRemaining = -1
    /\ ~timer

\* The requests a step has put behind those of the progress queue.
Issued == SubSeq(progressQueue', Len(progressQueue) + 1, Len(progressQueue'))

\* The session questions answered with their correct option.
AnsweredCorrectly ==
    {i \in DOMAIN quizQuestions :
        /\ quizQuestions[i].id \in DOMAIN answers
        /\ answers[quizQuestions[i].id] = quizQuestions[i].correct_option_id}

\* C14: the tick that finds the time expired submits with the answers
\* recorded then: it writes one verdict for each session question, correct
\* only for a question that has an answer and whose answer is its correct
\* option, and the count handed to the results is the number of those.
C14_ExpirySubmitsRecordedAnswers ==
    [][ (Tick /\ timeRemaining <= 0) =>
          /\ submits' = submits + 1
          /\ ~timer'
          /\ Len(Issued) = Len(quizQuestions) + 1
          /\ \A i \in DOMAIN quizQuestions :
               /\ Issued[i].kind = "quizPut"
               /\ Issued[i].record.questionId = quizQuestions[i].id
               /\ Issued[i].record.correct <=> i \in AnsweredCorrectly
          /\ Issued[Len(Issued)].kind = "getAllProgress"
          /\ Issued[Len(Issued)].then.kind = "showResults"
          /\ Issued[Len(Issued)].then.correct
               = Cardinality(AnsweredCorrectly) ]_vars

\* The countdown has expired on a session with an answered and an
\* unanswered question, and the results show one correct answer.
C14_Witness ==
    /\ ticks = SecondsPerMinute
    /\ submits = 1
    /\ Len(quizQuestions) = 2
    /\ Cardinality(DOMAIN answers) = 1
    /\ quizBody.kind = "results"
    /\ quizBody.correct = 1

\* C15: a submit issues one write for each session question, in order,
\* carrying the option the answer map holds for it or no option; and an
\* option click puts the option clicked in place of what the map held for
\* the question shown, and changes no other entry.
C15_OneWritePerQuestion ==
    [][ /\ (submits' = submits + 1) =>
             /\ Cardinality({i \in DOMAIN Issued : Issued[i].kind = "quizPut"})
                  = Len(quizQuestions)
             /\ \A i \in DOMAIN quizQuestions :
                  /\ Issued[i].kind = "quizPut"
                  /\ Issued[i].record.questionId = quizQuestions[i].id
                  /\ Issued[i].record.selectedOption
                       = (IF quizQuestions[i].id \in DOMAIN answers
                          THEN answers[quizQuestions[i].id] ELSE NoAnswer)
        /\ \A idx \in OptionIndices :
             OptionClick(idx) =>
                 /\ answers'[quizBody.q.id] = idx
                 /\ quizBody.q = quizQuestions[currentIndex + 1]
                 /\ \A id \in DOMAIN answers \ {quizBody.q.id} :
                      answers'[id] = answers[id]
                 /\ DOMAIN answers' = DOMAIN answers \cup {quizBody.q.id} ]_vars

\* A user submit has issued the writes of a session with an answered and
\* an unanswered question: one carries an option, one carries none.
C15_Witness ==
    /\ submits = 1
    /\ ticks < SecondsPerMinute
    /\ \E i, j \in DOMAIN progressQueue :
         /\ progressQueue[i].kind = "quizPut"
         /\ progressQueue[j].kind = "quizPut"
         /\ progressQueue[i].record.selectedOption = 1
         /\ progressQueue[j].record.selectedOption = NoAnswer

\* The nearest integer to 100 * correct / total, a half going up.
RoundHalfUp(correct, total) == (200 * correct + total) \div (2 * total)

\* C16: the results show as score the number of session questions whose
\* recorded answer is their correct option, and as accuracy the integer
\* nearest to correct / total * 100, a half rounded up, between 0 and 100.
C16_ScoreAndAccuracy ==
    quizBody.kind = "results" =>
        /\ quizBody.correct = Cardinality(AnsweredCorrectly)
        /\ quizBody.total = Len(quizQuestions)
        /\ quizBody.pct = RoundHalfUp(quizBody.correct, quizBody.total)
        /\ quizBody.pct \in 0..100

\* C17: every progress write, of a single answer or of a quiz submit,
\* carries as fileId the file of the question it is about.
C17_WriteCarriesSourceFile ==
    \A i \in DOMAIN progressQueue :
        progressQueue[i].kind \in {"put", "quizPut"} =>
            \A r \in DOMAIN heap :
                heap[r].id = progressQueue[i].record.questionId =>
                    progressQueue[i].record.fileId = heap[r].fileId

\* C18: once a submit of the session has begun, an answer, a next and a
\* prev leave the current index and the answer map as they are.
C18_InertAfterSubmit ==
    [][ ( /\ submits > 0
          /\ \/ \E idx \in OptionIndices : OptionClick(idx)
             \/ NextClick
             \/ PrevClick ) =>
        /\ currentIndex' = currentIndex
        /\ answers' = answers ]_vars

\* C19: close leaves the session inactive and its interval cleared; and
\* while no interval runs, any step but a start leaves it so, with
\* timeRemaining, the count of ticks and the count of submits as they are,
\* and issues no write of a quiz.
C19_CloseCancelsTick ==
    [][ /\ CloseClick => (~quizActive' /\ ~timer')
        /\ ( /\ ~timer
             /\ ~(\E count \in CountInputs, time \in TimeInputs :
                     QuizStartClick(count, time)) ) =>
             /\ ~timer'
             /\ timeRemaining' = timeRemaining
             /\ ticks' = ticks
             /\ submits = 0 => submits' = 0
             /\ submits = 0 =>
                  \A i \in DOMAIN Issued : Issued[i].kind # "quizPut" ]_vars

\* A session closed while its countdown ran: ticks had fired, time was
\* left, and nothing had been submitted.
C19_Witness ==
    /\ ~quizActive
    /\ ~timer
    /\ ~quizModalOpen
    /\ Len(quizQuestions) > 0
    /\ ticks > 0
    /\ timeRemaining > 0
    /\ submits = 0

\* C20: close leaves the answer map empty and the progress store as it is.
C20_CloseDiscardsAnswers ==
    [][ CloseClick => (answers' = NoAnswers /\ progressStore' = progressStore) ]_vars

\* C21: when the refresh a submit has asked for completes, every question
\* that submit wrote a verdict for is in the flat array and in the tree,
\* and every object with its id is solved, with the verdict as its correct
\* flag.
C21_RefreshSeesSubmitWrites ==
    [][ ( /\ GetAllFavoritesDone
          /\ Head(favoritesQueue).then # NoThen ) =>
        LET writes == Head(favoritesQueue).then.writes
            loaded == {flatQuestions'[i] : i \in DOMAIN flatQuestions'}
                         \cup RefsIn(hierarchy')
        IN \A i \in DOMAIN writes :
             /\ \E r \in RefsIn(hierarchy') :
                  heap'[r].id = writes[i].record.questionId
             /\ \A r \in loaded :
                  heap'[r].id = writes[i].record.questionId =>
                      /\ heap'[r].solved
                      /\ heap'[r].correct = writes[i].record.correct ]_vars

\* C22: a quiz request whose scope resolves to no question, and a start
\* with no candidate, change nothing of the session: it stays inactive,
\* with its questions, its index, its answers and its time as they were,
\* no interval is set, and neither modal is shown.
C22_EmptyScopeIsRejected ==
    [][ /\ \A source \in QuizSources :
             (StartQuizClick(source) /\ Len(Candidates(source)) = 0) =>
                 /\ ~quizActive'
                 /\ UNCHANGED <<quizActive, quizQuestions, currentIndex,
                                answers, timeRemaining, timer, ticks, setup,
                                quizModalOpen, quizBody>>
        /\ \A count \in CountInputs, time \in TimeInputs :
             (QuizStartClick(count, time) /\ Len(SetupCandidates) = 0) =>
                 UNCHANGED <<quizActive, quizQuestions, currentIndex, answers,
                             timeRemaining, timer, ticks, quizModalOpen>> ]_vars

\* A quiz on the group T1 was requested with a file loaded that has no
\* question of that term: nothing is shown, nothing has started.
C22_Witness ==
    /\ nOps > 0
    /\ Len(flatQuestions) > 0
    /\ Len(Candidates("T1")) = 0
    /\ ~setup.open
    /\ ~quizActive
    /\ quizQuestions = << >>

\* C23: once a session has started, currentIndex lies between 0 and the
\* number of session questions less one; next at the last question and
\* prev at the first change nothing, elsewhere they move by one; and the
\* question shown is the last one exactly when the index is the last.
C23_IndexStaysInBounds ==
    [][ /\ quizQuestions' # << >> =>
             /\ currentIndex' >= 0
             /\ currentIndex' <= Len(quizQuestions') - 1
        /\ NextClick =>
             currentIndex' = (IF currentIndex = Len(quizQuestions) - 1
                              THEN currentIndex ELSE currentIndex + 1)
        /\ PrevClick =>
             currentIndex' = (IF currentIndex = 0
                              THEN currentIndex ELSE currentIndex - 1)
        /\ (NextClick /\ currentIndex = Len(quizQuestions) - 1) =>
             quizBody' = quizBody
        /\ (PrevClick /\ currentIndex = 0) => quizBody' = quizBody
        /\ quizBody'.kind = "question" =>
             (quizBody'.q = quizQuestions'[Len(quizQuestions')]
                <=> currentIndex' = Len(quizQuestions') - 1) ]_vars

\* A session of two questions stands at its last question after two
\* clicks on next.
C23_Witness ==
    /\ quizActive
    /\ Len(quizQuestions) = 2
    /\ currentIndex = 1
    /\ nOps = 4
    /\ answers = NoAnswers
    /\ submits = 0

\* The engine after toggleFavoriteStatus(questionId) has run twice in a
\* row on the state at hand.
ToggledTwice(questionId) ==
    LET once == toggleFavoriteStatus(flatQuestions, heap, hierarchy,
                                     favoritesCache, questionId)
    IN toggleFavoriteStatus(flatQuestions, once.objs, hierarchy,
                            once.favoritesCache, questionId)

\* C24: for every loaded id, two calls of toggleFavoriteStatus in a row
\* leave every question with the favorite flag it had, and the stats of
\* every node of the tree as they were: a call writes no field but
\* `favorite`, and the tree it leaves has the stats it had.
C24_ToggleTwiceIsIdentity ==
    /\ \A questionId \in LoadedIds :
         \A r \in DOMAIN heap :
             /\ ToggledTwice(questionId).objs[r].favorite = heap[r].favorite
             /\ ToggledTwice(questionId).objs[r].solved = heap[r].solved
             /\ ToggledTwice(questionId).objs[r].correct = heap[r].correct
             /\ calculateStats(hierarchy, ToggledTwice(questionId).objs)
                  = calculateStats(hierarchy, heap)

\* Two favorite clicks on a loaded question have both completed: the store
\* has lost the record it got.
C24_Witness ==
    /\ nOps = 3
    /\ lastCall.op = "toggleFavoriteStatus"
    /\ favoritesStore = NoProgress
    /\ favoritesQueue = << >>
    /\ \E r \in DOMAIN heap : heap[r].id = lastCall.id

\* The ids of the questions the tree holds.
TreeIds == {heap[r].id : r \in RefsIn(hierarchy)}

\* C25: toggleFavoriteStatus with an id the tree does not hold changes
\* neither a question object nor the favorite-id set, also when the set
\* holds that id.
C25_AbsentToggleIsNoOp ==
    \A questionId \in AllIds \ TreeIds :
        LET t == toggleFavoriteStatus(flatQuestions, heap, hierarchy,
                                      favoritesCache, questionId)
        IN /\ t.objs = heap
           /\ t.favoritesCache = favoritesCache

\* C26: updateQuestionStatus with an id the tree does not hold leaves every
\* question object, with its solved and correct flags, and the tree, with
\* the stats of every node, as they were.
C26_AbsentUpdateIsNoOp ==
    \A questionId \in AllIds \ TreeIds :
        \A correct \in BOOLEAN :
            LET u == updateQuestionStatus(flatQuestions, heap, hierarchy,
                                          questionId, correct)
            IN /\ u.objs = heap
               /\ u.hierarchy = hierarchy

\* The write of an answer has completed after another file was loaded:
\* updateQuestionStatus ran with the id of a question that is gone.
C26_Witness ==
    /\ lastCall.op = "updateQuestionStatus"
    /\ lastCall.id \notin TreeIds
    /\ TreeIds # {}
    /\ progressQueue = << >>

\* The steps in which a request of answerQuestion or of toggleFavorite
\* fails, and the calls in which such a failure was handed to the caller.
WriteFails == SaveProgressFailed \/ FavoriteWriteFailed \/ IsFavoriteFailed

FailureReports == {"answerQuestion.rejected", "toggleFavorite.error"}

\* C27: when the persistence write of an answer or of a favorite toggle
\* fails, the failure reaches the caller (the promise of answerQuestion is
\* rejected, the catch of toggleFavorite runs) and the question flags, the
\* node stats and the favorite-id set are what they were: neither the click
\* nor the failed completion changes them.
C27_FailedWriteReachesCaller ==
    [][ /\ ( WriteFails \/ (\E questionId \in AllIds : FavoriteClick(questionId))
               \/ (\E questionId \in AllIds, selectedOption \in OptionIndices :
                      AnswerClick(questionId, selectedOption)) )
             => UNCHANGED <<heap, hierarchy, favoritesCache>>
        /\ WriteFails => /\ lastCall'.op \in FailureReports
                         /\ lastCall'.id \in AllIds ]_vars

\* The flat index, the tree, the progress cache and the favorite-id set
\* after a step are what `prior` recorded.
Intact(prior) ==
    /\ FlatKeys(flatQuestions', heap') = FlatKeys(prior.flatQuestions, prior.heap)
    /\ TreeView(hierarchy', heap') = TreeView(prior.hierarchy, prior.heap)
    /\ progressCache' = prior.progressCache
    /\ favoritesCache' = prior.favoritesCache

\* No other handler has written the objects, the tree or the favorite-id
\* set since `prior` was recorded: loadMultipleFiles writes none of them
\* before its reads have completed.
Undisturbed(prior) ==
    /\ heap = prior.heap
    /\ hierarchy = prior.hierarchy
    /\ favoritesCache = prior.favoritesCache

\* C28: a file load that fails leaves the application state as it was
\* before the load was requested.  A load of no valid file changes nothing;
\* when the read of all progress or of all favorites fails during the
\* ingest, and nothing else has run in between, the flat index, the tree,
\* the progress cache and the favorite-id set are those of the moment
\* loadFiles was called.
C28_FailedLoadKeepsState ==
    [][ /\ \A filenames \in Selections :
             LoadSelected(filenames) /\ FilesData(filenames, 1) = << >>
                => Intact(EngineFields)
        /\ GetAllProgressFailed /\ Undisturbed(Head(progressQueue).prior)
              => Intact(Head(progressQueue).prior)
        /\ GetAllFavoritesFailed /\ Undisturbed(Head(favoritesQueue).prior)
              => Intact(Head(favoritesQueue).prior) ]_vars

\* A file is well formed when its payload is a sequence of questions or an
\* object with a `questions` sequence.
WellFormed(filename) == ResponseData(filename).shape \in {"array", "wrapper"}

\* The questions of the well-formed files of a selection, in file order:
\* file name and id.
RECURSIVE WellFormedKeys(_, _)
WellFormedKeys(filenames, i) ==
    IF i > Len(filenames) THEN << >>
    ELSE (IF WellFormed(filenames[i])
          THEN [j \in 1..Len(ResponseData(filenames[i]).questions) |->
                  <<filenames[i], ResponseData(filenames[i]).questions[j].id>>]
          ELSE << >>) \o WellFormedKeys(filenames, i + 1)

\* C29: a malformed file is skipped and ingestion continues.  A load of a
\* selection with a well-formed file starts an ingest of exactly the
\* questions of its well-formed files, in file order; and when that ingest
\* returns, having run alone, the flat index holds exactly those questions
\* in that order, none from a malformed file.
C29_MalformedFileIsSkipped ==
    [][ /\ \A filenames \in Selections :
             ( /\ LoadSelected(filenames)
               /\ \E i \in DOMAIN filenames : WellFormed(filenames[i]) )
             => /\ Len(progressQueue') = Len(progressQueue) + 1
                /\ LET req == progressQueue'[Len(progressQueue')]
                   IN /\ req.kind = "getAllProgress"
                      /\ QuestionKeys(req.filesData, 1) = WellFormedKeys(filenames, 1)
        /\ ( GetAllFavoritesDone /\ flatQuestions = << >> )
             => FlatKeys(flatQuestions', heap')
                  = WellFormedKeys(Head(favoritesQueue).filenames, 1) ]_vars

\* A selection whose first file is malformed has been ingested: the flat
\* index holds the one question of the file that follows it.
C29_Witness ==
    /\ lastCall.op = "loadMultipleFiles"
    /\ progressQueue = << >> /\ favoritesQueue = << >>
    /\ Len(appCurrentFiles) = 2
    /\ ~WellFormed(appCurrentFiles[1])
    /\ WellFormed(appCurrentFiles[2])
    /\ FlatKeys(flatQuestions, heap) = << <<appCurrentFiles[2], 4>> >>

\* The paths a view is drawn for: the root, every path of the tree, and
\* the root followed by a key no level has.
ViewPaths == {<< >>} \cup PathsBelow(hierarchy) \cup {<<k>> : k \in ProbeKeys}

\* The view predicates, as the claim lists them.
ViewPredicate(view, q) ==
    \/ view = "solve" /\ ~q.solved
    \/ view = "review"
    \/ view = "history" /\ q.solved
    \/ view = "mistakes" /\ q.solved /\ ~q.correct
    \/ view = "favorites" /\ q.favorite

\* `value` occurs in `str` when the case of the letters is ignored.
SameLetter(c, d) == ToLowerCase(<<c>>) = ToLowerCase(<<d>>)

OccursIn(value, str) ==
    \E off \in 0..(Len(str) - Len(value)) :
        \A k \in 1..Len(value) : SameLetter(str[off + k], value[k])

\* The text match: the search text is empty, or occurs in the question
\* text, in the explanation or in an option.
TextMatch(value, id) ==
    \/ value = << >>
    \/ OccursIn(value, QuestionText(id).question)
    \/ OccursIn(value, QuestionText(id).explanation)
    \/ \E i \in DOMAIN QuestionText(id).options :
          OccursIn(value, QuestionText(id).options[i])

\* The positions of query(path) whose questions a view with a search text
\* selects.
Selected(questions, view, value) ==
    {i \in DOMAIN questions : /\ ViewPredicate(view, heap[questions[i]])
                              /\ TextMatch(value, heap[questions[i]].id)}

\* `questions` restricted to the positions `keep`, in order.
RECURSIVE Restriction(_, _, _)
Restriction(questions, keep, i) ==
    IF i > Len(questions) THEN << >>
    ELSE (IF i \in keep THEN <<questions[i]>> ELSE << >>)
         \o Restriction(questions, keep, i + 1)

GroupPaths ==
    {<< >>} \cup PathsBelow(hierarchy)
    \cup {p \o <<"Nope">> : p \in {q \in PathsBelow(hierarchy) : Len(q) = 4}}

\* The views whose filtered sequences are grouped below.
GroupViews == {"review", "solve"}

\* The filtered sequence of a path and a view, with no search text.
Filtered(path, view) ==
    renderQuestionView(flatQuestions, hierarchy, heap, path, view, << >>).value

\* The label the claim gives a question under a selection of n keys.
LabelOf(q, n) ==
    IF n >= 4 THEN "Questions"
    ELSE IF n = 0 THEN (IF q.term = Missing THEN "Uncategorized" ELSE q.term)
    ELSE IF n = 1 THEN (IF q.subject = Missing THEN "General" ELSE q.subject)
    ELSE IF n = 2 THEN (IF q.lesson = Missing THEN "General" ELSE q.lesson)
    ELSE (IF q.chapter = Missing THEN "General" ELSE q.chapter)

\* C31: grouping depends only on len(path).  The groups of a filtered
\* sequence are keyed by term, subject, lesson or chapter (each with its
\* default) for a path of 0, 1, 2 or 3 keys and by the one label
\* "Questions" for a longer path; the labels are those of the questions,
\* and each group is the filtered sequence restricted to the questions of
\* its label, in order, so that every question is in exactly one group.
C31_GroupingByPathLength ==
    \A path \in GroupPaths, view \in GroupViews :
        LET questions == Filtered(path, view)
            g == groupQuestions(questions, heap, Len(path), EmptyObject, 1)
        IN /\ ~g.threw
           /\ DOMAIN g.value.val
                 = {LabelOf(heap[questions[i]], Len(path)) : i \in DOMAIN questions}
           /\ \A k \in DOMAIN g.value.val :
                 g.value.val[k]
                   = Restriction(questions,
                        {i \in DOMAIN questions :
                            LabelOf(heap[questions[i]], Len(path)) = k}, 1)

\* The root groups the five loaded questions by term into three groups,
\* one of them the default, and a chapter groups its questions under
\* "Questions".
C31_Witness ==
    /\ nOps > 0
    /\ LET g == groupQuestions(Filtered(<< >>, "review"), heap, 0, EmptyObject, 1).value
       IN /\ DOMAIN g.val = {"T1", "Uncategorized", "7"}
          /\ Len(g.val["T1"]) = 3
    /\ \E path \in PathsBelow(hierarchy) :
          /\ Len(path) = 4
          /\ LET g == groupQuestions(Filtered(path, "review"), heap, 4, EmptyObject, 1).value
             IN DOMAIN g.val = {"Questions"} /\ Len(g.val["Questions"]) = 2

\* The labels of a filtered sequence, each at the place of its first
\* question.
RECURSIVE FirstSeen(_, _, _, _)
FirstSeen(questions, n, seen, i) ==
    IF i > Len(questions) THEN seen
    ELSE LET label == LabelOf(heap[questions[i]], n)
         IN FirstSeen(questions, n,
                      IF \E j \in DOMAIN seen : seen[j] = label THEN seen
                      ELSE Append(seen, label), i + 1)

\* C32: the groups are returned in first-seen order.  For every path and
\* filtered sequence, the labels of the result come in the order in which
\* their first questions come in the sequence, whatever the labels are,
\* numerals included.
C32_GroupsInFirstSeenOrder ==
    \A path \in GroupPaths, view \in GroupViews :
        LET questions == Filtered(path, view)
            g == groupQuestions(questions, heap, Len(path), EmptyObject, 1)
        IN ~g.threw /\ g.value.keys = FirstSeen(questions, Len(path), << >>, 1)

\* C33: for each session start the submit routine (scoring, the batch of
\* progress writes and the refresh) runs at most once, whatever the order
\* of submit clicks, ticks and the completion of the refresh.
C33_SubmitRunsAtMostOnce == submits <= 1

\* The places of a tree at which an object is held: chapter path and
\* position.
PlacesOf(h, r) ==
    UNION { IF HasQuestions(NodeAt(h, p, 1))
            THEN { <<p, i>> : i \in {j \in DOMAIN NodeAt(h, p, 1).questions :
                                       NodeAt(h, p, 1).questions[j] = r} }
            ELSE {}
          : p \in PathsBelow(h) }

\* C34: whenever no ingest is in flight, the flat index and the tree hold
\* the same questions.  Every question of the flat index is held exactly
\* once by the tree, in the chapter at the path of its term, subject,
\* lesson and chapter (defaults for the missing ones); no chapter holds a
\* question the flat index does not; and the stats.total of the term nodes
\* add up to the length of the flat index.
C34_FlatIndexAndTreeAgree ==
    OutstandingIngests = 0 =>
        /\ \A i \in DOMAIN flatQuestions :
              /\ Cardinality(PlacesOf(hierarchy, flatQuestions[i])) = 1
              /\ \A place \in PlacesOf(hierarchy, flatQuestions[i]) :
                    place[1] = ChapterPath(heap[flatQuestions[i]])
        /\ RefsIn(hierarchy) \subseteq {flatQuestions[i] : i \in DOMAIN flatQuestions}
        /\ FieldSum(hierarchy, "total", 1) = Len(flatQuestions)

\* The steps that start a quiz: the click that resolves the scope and the
\* click on quiz-start.
QuizStarts ==
    \/ \E source \in QuizSources : StartQuizClick(source)
    \/ \E count \in CountInputs, time \in TimeInputs : QuizStartClick(count, time)

\* C35: starting a quiz leaves the state of the engine unchanged.  For
\* every path of the tree and for the empty path, which is the scope "all",
\* the query returns the same questions in the same order after the start
\* as before it.
C35_StartLeavesQueriesUnchanged ==
    [][ QuizStarts =>
          \A path \in {<< >>} \cup PathsBelow(hierarchy) :
              getQuestionsForSelection(flatQuestions', hierarchy', path)
                = getQuestionsForSelection(flatQuestions, hierarchy, path) ]_vars

\* C36: whenever no persistence operation is in flight, the solved flags in
\* memory agree with the progress store: a loaded question is solved if and
\* only if the store holds a progress record for its id, after any sequence
\* of answers, resets and reloads; so a question that was reset is unsolved.
C36_SolvedAgreesWithStore ==
    Quiescent =>
        \A r \in DOMAIN heap : heap[r].solved <=> heap[r].id \in DOMAIN progressStore

\* C37: quiz scope resolution agrees with grouping.  For the current path
\* and every label that grouping query(path) produces, the candidates
\* resolved for the label are exactly the questions of query(path) whose
\* key at the level of len(path), defaults applied, is the label; so the
\* label of a group with questions never resolves to no question.
C37_ScopeAgreesWithGrouping ==
    LET questions == getQuestionsForSelection(flatQuestions, hierarchy,
                                              selectedPath).value
        groups == groupQuestions(questions, heap, Len(selectedPath),
                                 EmptyObject, 1).value
    IN \A label \in DOMAIN groups.val :
          /\ Candidates(label) # << >>
          /\ Candidates(label)
               = Restriction(questions,
                    {i \in DOMAIN questions :
                        LabelOf(heap[questions[i]], Len(selectedPath)) = label}, 1)

\* C38: every started session eventually ends.  While the tick keeps
\* firing and the persistence calls complete, a session that is active and
\* not yet submitted is eventually submitted (by the button or by expiry)
\* or closed, and every submit is eventually followed by the results.
C38_SessionsEnd ==
    /\ (quizActive /\ submits = 0) ~> (submits > 0 \/ ~quizActive)
    /\ (submits > 0) ~> (quizBody.kind = "results")

\* C39: in every reachable state every question with correct = true also has
\* solved = true, and every node of the tree satisfies
\* 0 <= stats.correct <= stats.solved <= stats.total.
C39_CorrectImpliesSolved ==
    /\ \A r \in DOMAIN heap : heap[r].correct => heap[r].solved
    /\ \A p \in PathsBelow(hierarchy) :
          LET stats == StatsAt(hierarchy, p)
          IN /\ 0 <= stats.correct
             /\ stats.correct <= stats.solved
             /\ stats.solved <= stats.total

\* Two answers have been applied, one of them right: a node counts fewer
\* correct questions than solved ones, and fewer solved ones than it holds.
C39_Witness ==
    /\ lastCall.op = "updateQuestionStatus"
    /\ \E r \in DOMAIN heap : heap[r].correct /\ heap[r].solved
    /\ \E p \in PathsBelow(hierarchy) :
          LET stats == StatsAt(hierarchy, p)
          IN /\ 0 < stats.correct
             /\ stats.correct < stats.solved
             /\ stats.solved < stats.total

=============================================================================
